---- MODULE Spec2Model ----
(***************************************************************************)
(* Model of Part2-Practical-Exploration/analyze_results.py: the gem5       *)
(* statistics extraction (Gem5ResultsAnalyzer.parse_stats_file), its       *)
(* derived metrics, and the loading of experiment directories.             *)
(*                                                                         *)
(* A text is a sequence of symbols.  A symbol is one character, except     *)
(* that a literal key phrase of the catalog (for instance the run of       *)
(* characters system.cpu.ipc) is kept as one symbol.  Numbers are exact    *)
(* rationals num/den with a kind ("int", "float"); an unparsed token is    *)
(* kept as a value of kind "str".                                          *)
(***************************************************************************)
EXTENDS Integers, Sequences, FiniteSets, TLC

VARIABLES
    stats_path,   \* extraction: the file parse_stats_file is called on
    result,       \* extraction: outcome of the call (NoCall before it)
    fs,           \* run: the results directory tree
    pc,           \* run: position of the run
    exp_idx,      \* run: index into experiment_dirs (load_experiment_results)
    todo,         \* run: entries of the experiment directory still to visit
    experiment_data, \* run: the mapping load_experiment_data is building
    experiments,  \* run: Gem5ResultsAnalyzer.experiments
    warnings,     \* run: stats paths a "not found" warning was printed for
    opened,       \* run: stats paths that were opened for reading
    load_order,   \* run: the <<experiment, workload>> keys in insertion order
    df,           \* run: the frame of generate_performance_comparison
    written,      \* run: files written into the results directory
    printed,      \* run: messages and figures printed to the operator
    reports,      \* calls: the outcomes of successive parse_stats_file calls
    output_format, \* run: the --output-format argument of main
    csv_path,     \* simple analysis: the performance summary CSV
    sa_pc,        \* simple analysis: position of simple_analysis.main
    sa_out        \* simple analysis: exception and figures of the calls

vars == <<stats_path, result, fs, pc, exp_idx, todo, experiment_data, experiments,
          warnings, opened, load_order, df, written, printed, reports, output_format,
          csv_path, sa_pc, sa_out>>

----------------------------------------------------------------------------
(* Characters and character classes of the patterns                        *)

DigitChars == {"0", "1", "2", "3", "4", "5", "6", "7", "8", "9"}

\* \s of the regular expressions
WhiteSpace == {" ", "\n"}

\* the class [\d\.e\-\+]
NumClass == DigitChars \cup {".", "e", "-", "+"}

\* the class \d
DigClass == DigitChars

DigitVal(c) ==
    CASE c = "0" -> 0 [] c = "1" -> 1 [] c = "2" -> 2 [] c = "3" -> 3
      [] c = "4" -> 4 [] c = "5" -> 5 [] c = "6" -> 6 [] c = "7" -> 7
      [] c = "8" -> 8 [] c = "9" -> 9

\* str.lower() on one character (only E has an upper case among the symbols)
Lower(c) == IF c = "E" THEN "e" ELSE c

----------------------------------------------------------------------------
(* The catalog: patterns of parse_stats_file, in dictionary order          *)

Pat(m, k, c) == [metric |-> m, key |-> k, class |-> c]

patterns ==
    << Pat("sim_seconds",            "sim_seconds",                              NumClass),
       Pat("sim_insts",              "sim_insts",                                DigClass),
       Pat("host_inst_rate",         "host_inst_rate",                           NumClass),
       Pat("committedInsts",         "system.cpu.committedInsts",                DigClass),
       Pat("numCycles",              "system.cpu.numCycles",                     DigClass),
       Pat("ipc",                    "system.cpu.ipc",                           NumClass),
       Pat("branch_lookups",         "system.cpu.branchPred.lookups",            DigClass),
       Pat("branch_condPredicted",   "system.cpu.branchPred.condPredicted",      DigClass),
       Pat("branch_condIncorrect",   "system.cpu.branchPred.condIncorrect",      DigClass),
       Pat("icache_overall_hits",    "system.cpu.icache.overall_hits::total",    DigClass),
       Pat("icache_overall_misses",  "system.cpu.icache.overall_misses::total",  DigClass),
       Pat("dcache_overall_hits",    "system.cpu.dcache.overall_hits::total",    DigClass),
       Pat("dcache_overall_misses",  "system.cpu.dcache.overall_misses::total",  DigClass),
       Pat("l2cache_overall_hits",   "system.l2cache.overall_hits::total",       DigClass),
       Pat("l2cache_overall_misses", "system.l2cache.overall_misses::total",     DigClass),
       Pat("fetch_rate",             "system.cpu.fetch.rate",                    NumClass),
       Pat("decode_rate",            "system.cpu.decode.rate",                   NumClass),
       Pat("rename_rate",            "system.cpu.rename.rate",                   NumClass),
       Pat("iew_rate",               "system.cpu.iew.rate",                      NumClass),
       Pat("commit_rate",            "system.cpu.commit.rate",                   NumClass),
       Pat("rob_reads",              "system.cpu.rob.reads",                     DigClass),
       Pat("rob_writes",             "system.cpu.rob.writes",                    DigClass),
       Pat("iq_reads",               "system.cpu.iq.reads",                      DigClass),
       Pat("iq_writes",              "system.cpu.iq.writes",                     DigClass) >>

CatalogNames == {patterns[i].metric : i \in 1..Len(patterns)}

PatternOf(m) == patterns[CHOOSE i \in 1..Len(patterns) : patterns[i].metric = m]

----------------------------------------------------------------------------
(* re.search(pattern, content) for a pattern  key \s+ ( class+ )           *)

RECURSIVE RunEnd(_, _, _)
\* first position at or after i whose symbol is not in C (Len+1 if none)
RunEnd(s, i, C) ==
    IF i > Len(s) \/ s[i] \notin C THEN i ELSE RunEnd(s, i + 1, C)

\* variant: the key phrase must stand at the start of a line (re.MULTILINE ^)
MatchAtLineStart(p, content, i) ==
    /\ i = 1 \/ content[i - 1] = "\n"
    /\ content[i] = p.key
    /\ LET w == RunEnd(content, i + 1, WhiteSpace)
       IN  /\ w > i + 1
           /\ w <= Len(content)
           /\ content[w] \in p.class

\* the pattern matches with the key phrase at position i
MatchAt(p, content, i) ==
    /\ content[i] = p.key
    /\ LET w == RunEnd(content, i + 1, WhiteSpace)
       IN  /\ w > i + 1
           /\ w <= Len(content)
           /\ content[w] \in p.class

Matches(p, content) == \E i \in 1..Len(content) : MatchAt(p, content, i)

\* variant: the rightmost match is reported
MatchPosLast(p, content) ==
    CHOOSE i \in 1..Len(content) :
        /\ MatchAt(p, content, i)
        /\ \A j \in (i + 1)..Len(content) : ~MatchAt(p, content, j)

\* re.search reports the leftmost match
MatchPos(p, content) ==
    CHOOSE i \in 1..Len(content) :
        /\ MatchAt(p, content, i)
        /\ \A j \in 1..(i - 1) : ~MatchAt(p, content, j)

\* match.group(1): the greedy run of class characters after the white space
Group1(p, content) ==
    LET i == MatchPos(p, content)
        w == RunEnd(content, i + 1, WhiteSpace)
    IN  SubSeq(content, w, RunEnd(content, w, p.class) - 1)

----------------------------------------------------------------------------
(* Python values: int and float as exact rationals, str as the token       *)

RECURSIVE Gcd(_, _)
Gcd(a, b) == IF b = 0 THEN a ELSE Gcd(b, a % b)

Abs(n) == IF n < 0 THEN -n ELSE n

RECURSIVE Pow10(_)
Pow10(n) == IF n = 0 THEN 1 ELSE 10 * Pow10(n - 1)

IntVal(n) == [kind |-> "int", num |-> n, den |-> 1, text |-> <<>>]

\* the float n/d (d # 0), in lowest terms with a positive denominator
FloatVal(n, d) ==
    LET g == Gcd(Abs(n), Abs(d))
        s == IF d < 0 THEN -1 ELSE 1
    IN  [kind |-> "float", num |-> s * (n \div g), den |-> s * (d \div g), text |-> <<>>]

StrVal(t) == [kind |-> "str", num |-> 0, den |-> 1, text |-> t]

\* outcome of an expression: a value, or the exception it raises
Ok(v) == [exc |-> "none", val |-> v]
Raise(e) == [exc |-> e, val |-> StrVal(<<>>)]

RECURSIVE DigitsValue(_, _, _)
\* the number written by the digits s[i..j-1]
DigitsValue(s, i, j) ==
    IF j <= i THEN 0 ELSE 10 * DigitsValue(s, i, j - 1) + DigitVal(s[j - 1])

HasSign(s, i) == i <= Len(s) /\ s[i] \in {"+", "-"}

SignAt(s, i) == IF i <= Len(s) /\ s[i] = "-" THEN -1 ELSE 1

\* the most digits int() converts (sys.get_int_max_str_digits(), 4300 by
\* default since Python 3.11, scaled down to the tokens of the model)
IntMaxStrDigits == 7

\* int(value): an optional sign and at least one digit, nothing else; more
\* digits than the limit are a ValueError
PyInt(s) ==
    LET p1 == IF HasSign(s, 1) THEN 2 ELSE 1
        p2 == RunEnd(s, p1, DigitChars)
    IN  IF p2 > p1 /\ p2 = Len(s) + 1 /\ p2 - p1 <= IntMaxStrDigits
        THEN Ok(IntVal(SignAt(s, 1) * DigitsValue(s, p1, p2)))
        ELSE Raise("ValueError")

\* float(value): [sign] (digits [. [digits]] | . digits) [(e|E) [sign] digits]
PyFloat(s) ==
    LET p1     == IF HasSign(s, 1) THEN 2 ELSE 1
        p2     == RunEnd(s, p1, DigitChars)
        dot    == p2 <= Len(s) /\ s[p2] = "."
        p3     == IF dot THEN RunEnd(s, p2 + 1, DigitChars) ELSE p2
        nint   == p2 - p1
        nfrac  == IF dot THEN p3 - (p2 + 1) ELSE 0
        hasexp == p3 <= Len(s) /\ Lower(s[p3]) = "e"
        p4     == IF hasexp THEN (IF HasSign(s, p3 + 1) THEN p3 + 2 ELSE p3 + 1) ELSE p3
        p5     == IF hasexp THEN RunEnd(s, p4, DigitChars) ELSE p3
        expo   == IF hasexp THEN SignAt(s, p3 + 1) * DigitsValue(s, p4, p5) ELSE 0
        mant   == DigitsValue(s, p1, p2) * Pow10(nfrac)
                  + (IF dot THEN DigitsValue(s, p2 + 1, p3) ELSE 0)
        wellformed == /\ nint + nfrac >= 1
                      /\ hasexp => p5 > p4
                      /\ p5 = Len(s) + 1
    IN  IF ~wellformed THEN Raise("ValueError")
        ELSE IF expo >= 0
             THEN Ok(FloatVal(SignAt(s, 1) * mant * Pow10(expo), Pow10(nfrac)))
             ELSE Ok(FloatVal(SignAt(s, 1) * mant, Pow10(nfrac) * Pow10(-expo)))

\* '.' in value or 'e' in value.lower()
LooksFloat(value) ==
    \E i \in 1..Len(value) : value[i] = "." \/ Lower(value[i]) = "e"

\* variant: every token goes through float()
ConvertAlwaysFloat(value) == PyFloat(value)

\* the body of the try block: float(value) or int(value)
Convert(value) == IF LooksFloat(value) THEN PyFloat(value) ELSE PyInt(value)

\* try: ... except ValueError: metrics[metric] = value
ConvertOrKeep(value) ==
    LET r == Convert(value)
    IN  IF r.exc = "ValueError" THEN Ok(StrVal(value)) ELSE r

\* metrics[key] = v
Put(m, key, v) == [k \in DOMAIN m \cup {key} |-> IF k = key THEN v ELSE m[k]]

EmptyMetrics == [k \in {} |-> IntVal(0)]

----------------------------------------------------------------------------
(* Python operators used by the derived-metric step                        *)

\* variant: the comparison is a >= 0
PyGeZero(a) ==
    IF a.kind = "str" THEN [exc |-> "TypeError", val |-> FALSE]
    ELSE [exc |-> "none", val |-> a.num >= 0]

\* a > 0
PyGtZero(a) ==
    IF a.kind = "str" THEN [exc |-> "TypeError", val |-> FALSE]
    ELSE [exc |-> "none", val |-> a.num > 0]

\* a + b
PyAdd(a, b) ==
    IF a.kind = "str" /\ b.kind = "str" THEN Ok(StrVal(a.text \o b.text))
    ELSE IF a.kind = "str" \/ b.kind = "str" THEN Raise("TypeError")
    ELSE IF a.kind = "int" /\ b.kind = "int" THEN Ok(IntVal(a.num + b.num))
    ELSE Ok(FloatVal(a.num * b.den + b.num * a.den, a.den * b.den))

\* a - b
PySub(a, b) ==
    IF a.kind = "str" \/ b.kind = "str" THEN Raise("TypeError")
    ELSE IF a.kind = "int" /\ b.kind = "int" THEN Ok(IntVal(a.num - b.num))
    ELSE Ok(FloatVal(a.num * b.den - b.num * a.den, a.den * b.den))

\* the largest magnitude a float holds (sys.float_info.max, scaled down to the
\* numbers of the model)
FloatMax == 10000

\* the number of floats between 1/2 and 1 (2^53, scaled down to the numbers of
\* the model): a quotient closer to 1 than half a step is the float 1.0
FloatResolution == 1000

\* a / b (true division): the quotient of two ints is a float, and it is an
\* OverflowError when the quotient is beyond the range of a float.  The
\* quotient is rounded to a float: the model keeps it exact except where the
\* rounding gives 0.0 (a quotient below half the smallest positive float,
\* 1/FloatMax in the model) or 1.0 (a quotient within half a step of 1)
PyTrueDiv(a, b) ==
    IF a.kind = "str" \/ b.kind = "str" THEN Raise("TypeError")
    ELSE IF b.num = 0 THEN Raise("ZeroDivisionError")
    ELSE IF /\ a.kind = "int" /\ b.kind = "int"
            /\ Abs(a.num) > FloatMax * Abs(b.num)
         THEN Raise("OverflowError")
    ELSE IF a.kind = "int" /\ b.kind = "int" /\ 2 * FloatMax * Abs(a.num) < Abs(b.num)
         THEN Ok(FloatVal(0, 1))
    ELSE IF /\ a.kind = "int" /\ b.kind = "int"
            /\ a.num * b.num > 0
            /\ 2 * FloatResolution * Abs(a.num - b.num) < Abs(b.num)
         THEN Ok(FloatVal(1, 1))
    ELSE Ok(FloatVal(a.num * b.den, a.den * b.num))

----------------------------------------------------------------------------
(* parse_stats_file                                                        *)

\* a report under construction, or the exception that ended the call
Done(m) == [exc |-> "none", metrics |-> m]
Fail(e, m) == [exc |-> e, metrics |-> m]

\* variant: a metric that does not match is stored as 0
MatchMetricDefault(p, content, m) ==
    IF Matches(p, content)
    THEN LET v == ConvertOrKeep(Group1(p, content))
         IN  IF v.exc # "none" THEN Fail(v.exc, m)
             ELSE Done(Put(m, p.metric, v.val))
    ELSE Done(Put(m, p.metric, IntVal(0)))

\* variant: the loop stores the first metric that matches and no other
MatchMetricOnce(p, content, m) ==
    IF Matches(p, content) /\ m = EmptyMetrics
    THEN LET v == ConvertOrKeep(Group1(p, content))
         IN  IF v.exc # "none" THEN Fail(v.exc, m)
             ELSE Done(Put(m, p.metric, v.val))
    ELSE Done(m)

\* one iteration of  for metric, pattern in patterns.items()
MatchMetric(p, content, m) ==
    IF Matches(p, content)
    THEN LET v == ConvertOrKeep(Group1(p, content))
         IN  IF v.exc # "none" THEN Fail(v.exc, m)
             ELSE Done(Put(m, p.metric, v.val))
    ELSE Done(m)

RECURSIVE ExtractLoop(_, _, _)
\* the iterations i, i+1, ... of the loop over the catalog; an exception ends it
ExtractLoop(content, i, r) ==
    IF i > Len(patterns) \/ r.exc # "none" THEN r
    ELSE ExtractLoop(content, i + 1, MatchMetric(patterns[i], content, r.metrics))

\* variant: the misprediction ratio is stored, not its complement
BranchAccuracyNoComplement(m) ==
    IF "branch_condPredicted" \in DOMAIN m /\ "branch_condIncorrect" \in DOMAIN m
    THEN LET c == PyGtZero(m["branch_condPredicted"])
             q == PyTrueDiv(m["branch_condIncorrect"], m["branch_condPredicted"])
         IN  IF c.exc # "none" THEN Fail(c.exc, m)
             ELSE IF c.val
             THEN IF q.exc # "none" THEN Fail(q.exc, m)
                  ELSE Done(Put(m, "branch_accuracy", q.val))
             ELSE Done(Put(m, "branch_accuracy", FloatVal(0, 1)))
    ELSE Done(m)

\* variant: with nothing predicted the accuracy is 1.0
BranchAccuracyElseOne(m) ==
    IF "branch_condPredicted" \in DOMAIN m /\ "branch_condIncorrect" \in DOMAIN m
    THEN LET c == PyGtZero(m["branch_condPredicted"])
             q == PyTrueDiv(m["branch_condIncorrect"], m["branch_condPredicted"])
             d == PySub(FloatVal(1, 1), q.val)
         IN  IF c.exc # "none" THEN Fail(c.exc, m)
             ELSE IF c.val
             THEN IF q.exc # "none" THEN Fail(q.exc, m)
                  ELSE IF d.exc # "none" THEN Fail(d.exc, m)
                  ELSE Done(Put(m, "branch_accuracy", d.val))
             ELSE Done(Put(m, "branch_accuracy", FloatVal(1, 1)))
    ELSE Done(m)

\* variant: the ratio is subtracted from the accuracy the report already holds
BranchAccuracyFromStored(m) ==
    IF "branch_condPredicted" \in DOMAIN m /\ "branch_condIncorrect" \in DOMAIN m
    THEN LET c == PyGtZero(m["branch_condPredicted"])
         IN  IF c.exc # "none" THEN Fail(c.exc, m)
             ELSE IF c.val
             THEN LET q == PyTrueDiv(m["branch_condIncorrect"], m["branch_condPredicted"])
                      d == PySub(IF "branch_accuracy" \in DOMAIN m THEN m["branch_accuracy"]
                                 ELSE FloatVal(1, 1), q.val)
                  IN  IF q.exc # "none" THEN Fail(q.exc, m)
                      ELSE IF d.exc # "none" THEN Fail(d.exc, m)
                      ELSE Done(Put(m, "branch_accuracy", d.val))
             ELSE Done(Put(m, "branch_accuracy", FloatVal(0, 1)))
    ELSE Done(m)

\* the branch accuracy step
BranchAccuracy(m) ==
    IF "branch_condPredicted" \in DOMAIN m /\ "branch_condIncorrect" \in DOMAIN m
    THEN LET c == PyGtZero(m["branch_condPredicted"])
         IN  IF c.exc # "none" THEN Fail(c.exc, m)
             ELSE IF c.val
             THEN LET q == PyTrueDiv(m["branch_condIncorrect"], m["branch_condPredicted"])
                      d == PySub(FloatVal(1, 1), q.val)
                  IN  IF q.exc # "none" THEN Fail(q.exc, m)
                      ELSE IF d.exc # "none" THEN Fail(d.exc, m)
                      ELSE Done(Put(m, "branch_accuracy", d.val))
             ELSE Done(Put(m, "branch_accuracy", FloatVal(0, 1)))
    ELSE Done(m)

CacheTiers == <<"icache", "dcache", "l2cache">>

\* variant: the hits are divided by the misses
HitRateOverMisses(cache, m) ==
    LET hits_key   == cache \o "_overall_hits"
        misses_key == cache \o "_overall_misses"
    IN  IF hits_key \in DOMAIN m /\ misses_key \in DOMAIN m
        THEN LET total_accesses == PyAdd(m[hits_key], m[misses_key])
                 c == PyGtZero(total_accesses.val)
                 q == PyTrueDiv(m[hits_key], m[misses_key])
             IN  IF total_accesses.exc # "none" THEN Fail(total_accesses.exc, m)
                 ELSE IF c.exc # "none" THEN Fail(c.exc, m)
                 ELSE IF c.val
                 THEN IF q.exc # "none" THEN Fail(q.exc, m)
                      ELSE Done(Put(m, cache \o "_hit_rate", q.val))
                 ELSE Done(Put(m, cache \o "_hit_rate", FloatVal(0, 1)))
        ELSE Done(m)

\* variant: a tier without both counters gets the rate 0
HitRateDefaultZero(cache, m) ==
    LET hits_key   == cache \o "_overall_hits"
        misses_key == cache \o "_overall_misses"
    IN  IF hits_key \in DOMAIN m /\ misses_key \in DOMAIN m
        THEN LET total_accesses == PyAdd(m[hits_key], m[misses_key])
                 c == PyGtZero(total_accesses.val)
                 q == PyTrueDiv(m[hits_key], total_accesses.val)
             IN  IF total_accesses.exc # "none" THEN Fail(total_accesses.exc, m)
                 ELSE IF c.exc # "none" THEN Fail(c.exc, m)
                 ELSE IF c.val
                 THEN IF q.exc # "none" THEN Fail(q.exc, m)
                      ELSE Done(Put(m, cache \o "_hit_rate", q.val))
                 ELSE Done(Put(m, cache \o "_hit_rate", FloatVal(0, 1)))
        ELSE Done(Put(m, cache \o "_hit_rate", FloatVal(0, 1)))

\* variant: the misses are divided by the accesses
HitRateOfMisses(cache, m) ==
    LET hits_key   == cache \o "_overall_hits"
        misses_key == cache \o "_overall_misses"
    IN  IF hits_key \in DOMAIN m /\ misses_key \in DOMAIN m
        THEN LET total_accesses == PyAdd(m[hits_key], m[misses_key])
                 c == PyGtZero(total_accesses.val)
                 q == PyTrueDiv(m[misses_key], total_accesses.val)
             IN  IF total_accesses.exc # "none" THEN Fail(total_accesses.exc, m)
                 ELSE IF c.exc # "none" THEN Fail(c.exc, m)
                 ELSE IF c.val
                 THEN IF q.exc # "none" THEN Fail(q.exc, m)
                      ELSE Done(Put(m, cache \o "_hit_rate", q.val))
                 ELSE Done(Put(m, cache \o "_hit_rate", FloatVal(0, 1)))
        ELSE Done(m)

\* one iteration of  for cache in ['icache', 'dcache', 'l2cache']
HitRate(cache, m) ==
    LET hits_key   == cache \o "_overall_hits"
        misses_key == cache \o "_overall_misses"
    IN  IF hits_key \in DOMAIN m /\ misses_key \in DOMAIN m
        THEN LET total_accesses == PyAdd(m[hits_key], m[misses_key])
                 c == PyGtZero(total_accesses.val)
                 q == PyTrueDiv(m[hits_key], total_accesses.val)
             IN  IF total_accesses.exc # "none" THEN Fail(total_accesses.exc, m)
                 ELSE IF c.exc # "none" THEN Fail(c.exc, m)
                 ELSE IF c.val
                 THEN IF q.exc # "none" THEN Fail(q.exc, m)
                      ELSE Done(Put(m, cache \o "_hit_rate", q.val))
                 ELSE Done(Put(m, cache \o "_hit_rate", FloatVal(0, 1)))
        ELSE Done(m)

RECURSIVE HitRates(_, _)
\* the loop over the cache tiers from tier i on; an exception ends it
HitRates(i, r) ==
    IF i > Len(CacheTiers) \/ r.exc # "none" THEN r
    ELSE HitRates(i + 1, HitRate(CacheTiers[i], r.metrics))

\* the derived-metric step: branch accuracy, then the cache hit rates
Derived(m) == HitRates(1, BranchAccuracy(m))

\* the primary metrics extracted from the text
Primary(content) == ExtractLoop(content, 1, Done(EmptyMetrics))

\* the file at a path: absent, or present with its text
NoFile == [exists |-> FALSE, content |-> <<>>]
File(text) == [exists |-> TRUE, content |-> text]

\* the derived-metric step follows the loop unless the loop raised
ThenDerived(e) == IF e.exc # "none" THEN e ELSE Derived(e.metrics)

\* the outcome of a call that read the file: the report, or the exception
Read(r) ==
    [called |-> TRUE, exc |-> r.exc, metrics |-> r.metrics,
     warned |-> FALSE, opened |-> TRUE]

\* variant: the path is opened without the test that it exists
parse_stats_file_unchecked(file) ==
    IF ~file.exists
    THEN [called |-> TRUE, exc |-> "FileNotFoundError", metrics |-> EmptyMetrics,
          warned |-> FALSE, opened |-> TRUE]
    ELSE Read(ThenDerived(Primary(file.content)))

\* parse_stats_file(stats_path), where file is what the path holds
parse_stats_file(file) ==
    IF ~file.exists
    THEN [called |-> TRUE, exc |-> "none", metrics |-> EmptyMetrics,
          warned |-> TRUE, opened |-> FALSE]
    ELSE Read(ThenDerived(Primary(file.content)))

NoCall == [called |-> FALSE, exc |-> "none", metrics |-> EmptyMetrics,
           warned |-> FALSE, opened |-> FALSE]

----------------------------------------------------------------------------
(* Input texts of the extraction: up to MaxLines lines                     *)

MaxLines == 2

\* a line: a key phrase, one blank, a token, the end of the line
Line(key, token) == <<key, " ">> \o token \o <<"\n">>

\* tokens written after system.cpu.ipc, whose pattern takes [\d\.e\-\+]
NumTokens ==
    { <<"1", ".", "2", "3", "4">>, <<"2", ".", "5">>, <<"7">>, <<"1", "e", "2">>,
      <<"1", "E", "2">>, <<"-", "5">>, <<"1", ".", "2", ".", "3">>, <<"e">> }

Lines ==
    {Line("system.cpu.ipc", t) : t \in NumTokens}
    \cup {Line("ipc", <<"1", ".", "2", "3", "4">>)}
    \cup {Line("sim_insts", t) : t \in {<<"1", "0", "0", "0">>, <<"7">>}}
    \cup {Line("system.cpu.branchPred.condPredicted", t) :
              t \in {<<"0">>, <<"1", "3">>, <<"1", "0", "0">>}}
    \cup {Line("system.cpu.branchPred.condIncorrect", t) :
              t \in {<<"1", "3">>, <<"1", "0", "0">>, <<"9", "9", "9", "9", "9", "9", "9">>}}
    \cup {Line("system.cpu.icache.overall_hits::total", t) : t \in {<<"0">>, <<"8", "0">>}}
    \cup {Line("system.cpu.icache.overall_misses::total", t) : t \in {<<"0">>, <<"2", "0">>}}
    \cup { Line("system.cpu.dcache.overall_hits::total", <<"8", "0">>),
           Line("system.cpu.dcache.overall_misses::total", <<"2", "0">>),
           Line("system.l2cache.overall_hits::total", <<"0">>),
           Line("system.l2cache.overall_misses::total", <<"0">>) }
    \cup { <<"x", "sim_insts", " ", " ", "4", "2", "x", "\n">>,
           <<"sim_insts", "\n", "1", ".", "5", "\n">>,
           <<"system.cpu.ipc", " ", "x", "\n">> }

RECURSIVE TextOf(_)
\* the text made of the lines ls, in their order
TextOf(ls) == IF ls = <<>> THEN <<>> ELSE Head(ls) \o TextOf(Tail(ls))

----------------------------------------------------------------------------
(* Specification of one call of parse_stats_file                           *)

\* before generate_performance_comparison has built its frame
NoFrame == [computed |-> FALSE, rows |-> <<>>]

\* no performance summary is being analysed
NoCsv == [exists |-> FALSE, data |-> <<>>]

NoOutput == [exc |-> "none", figs |-> {}]

SimpleIdle == csv_path = NoCsv /\ sa_pc = "idle" /\ sa_out = NoOutput

\* no run of the analyzer is in progress
AnalyzerIdle ==
    /\ fs = <<>>
    /\ pc = "idle"
    /\ exp_idx = 0
    /\ todo = {}
    /\ experiment_data = <<>>
    /\ experiments = <<>>
    /\ warnings = {}
    /\ opened = {}
    /\ load_order = <<>>
    /\ df = NoFrame
    /\ written = {}
    /\ printed = {}
    /\ reports = <<>>
    /\ output_format = "console"

RunIdle == AnalyzerIdle /\ SimpleIdle

InitExtract ==
    /\ \/ stats_path = NoFile
       \/ \E n \in 0..MaxLines : \E ls \in [1..n -> Lines] : stats_path = File(TextOf(ls))
    /\ result = NoCall
    /\ RunIdle

\* the call parse_stats_file(stats_path)
ParseStatsFile ==
    /\ ~result.called
    /\ result' = parse_stats_file(stats_path)
    /\ UNCHANGED <<stats_path, fs, pc, exp_idx, todo, experiment_data, experiments,
                   warnings, opened>>
    /\ UNCHANGED <<load_order, df, written, printed, reports>>
    /\ UNCHANGED <<output_format, csv_path, sa_pc, sa_out>>

NextExtract == ParseStatsFile

SpecExtract == InitExtract /\ [][NextExtract]_vars

----------------------------------------------------------------------------
(* The results directory tree                                              *)

\* the names load_experiment_results looks for, in its order
experiment_dirs == <<"basic_pipeline", "branch_prediction", "superscalar", "smt">>

\* names of the directories that may stand in the results directory
DirNames == {"branch_prediction", "superscalar", "other"}

\* names of the entries that may stand in an experiment directory
EntryNames == {"w1", "w2"}

\* at most MaxEntries entries in the whole tree
MaxEntries == 2

\* the report text of a finished simulation
GoodStats ==
    Line("system.cpu.ipc", <<"1", ".", "2", "3", "4">>)
      \o Line("system.cpu.branchPred.condPredicted", <<"1", "0", "0">>)
      \o Line("system.cpu.branchPred.condIncorrect", <<"1", "3">>)

\* a report text on which the branch accuracy step raises OverflowError
HugeStats ==
    Line("system.cpu.branchPred.condPredicted", <<"1", "3">>)
      \o Line("system.cpu.branchPred.condIncorrect", <<"9", "9", "9", "9", "9", "9", "9">>)

\* a report text whose ipc token is not a number and is kept as text
TextStats == Line("system.cpu.ipc", <<"1", ".", "2", ".", "3">>)

\* what stats.txt of a workload directory may be
StatsFiles == {NoFile, File(<<>>), File(GoodStats), File(HugeStats), File(TextStats)}

\* an entry of an experiment directory: a plain file, or a workload directory
\* with its stats.txt and with or without config.ini
PlainFile == [is_dir |-> FALSE, stats |-> NoFile, config |-> FALSE]
WorkloadDir(st, cf) == [is_dir |-> TRUE, stats |-> st, config |-> cf]
Entries ==
    {PlainFile} \cup {WorkloadDir(st, FALSE) : st \in StatsFiles}
                \cup {WorkloadDir(File(GoodStats), TRUE)}

\* the entries of a tree with directories D: at most MaxEntries places
\* <<directory, entry name>>, each holding an entry
Placements(D) ==
    UNION {[S -> Entries] : S \in {T \in SUBSET (D \X EntryNames) : Cardinality(T) <= MaxEntries}}

\* the tree with directories D and the entries a
Tree(D, a) ==
    [d \in D |-> [w \in {x \in EntryNames : <<d, x>> \in DOMAIN a} |-> a[<<d, w>>]]]

\* the results directory: absent, or present with a tree
NoDir == [exists |-> FALSE, dirs |-> <<>>]
ResultsDir(D, a) == [exists |-> TRUE, dirs |-> Tree(D, a)]

----------------------------------------------------------------------------
(* The run: main, load_experiment_results, load_experiment_data            *)

ExtractIdle == stats_path = NoFile /\ result = NoCall

Init ==
    /\ ExtractIdle
    /\ \/ fs = NoDir
       \/ \E D \in SUBSET DirNames : \E a \in Placements(D) : fs = ResultsDir(D, a)
    /\ pc = "main"
    /\ exp_idx = 0
    /\ todo = {}
    /\ experiment_data = <<>>
    /\ experiments = <<>>
    /\ warnings = {}
    /\ opened = {}
    /\ load_order = <<>>
    /\ df = NoFrame
    /\ written = {}
    /\ printed = {}
    /\ reports = <<>>
    /\ output_format = "console"
    /\ SimpleIdle

exp_dir == experiment_dirs[exp_idx]

\* one printed figure: the value and the format specification it is printed with
Fig(section, workload, label, value, fmt) ==
    [section |-> section, workload |-> workload, label |-> label,
     value |-> value, fmt |-> fmt]

\* one printed message without a figure
Msg(section, text) == Fig(section, "", text, IntVal(0), "")

\* print(f"Error: Results directory not found: {args.results_dir}")
ResultsDirNotFound ==
    Fig("main", "args.results_dir", "Error: Results directory not found", IntVal(0), "")

\* variant: the error is printed but main does not return
MainNoDirGoesOn ==
    /\ pc = "main"
    /\ ~fs.exists
    /\ pc' = "load_results"
    /\ exp_idx' = 1
    /\ printed' = printed \cup {ResultsDirNotFound}
    /\ UNCHANGED <<stats_path, result, fs, todo, experiment_data, experiments,
                   warnings, opened, load_order, df, written, reports>>
    /\ UNCHANGED <<output_format, csv_path, sa_pc, sa_out>>

\* main: the results directory is missing, the run ends with exit code 1
MainNoDir ==
    /\ pc = "main"
    /\ ~fs.exists
    /\ pc' = "exit1"
    /\ UNCHANGED <<stats_path, result, fs, exp_idx, todo, experiment_data, experiments,
                   warnings, opened>>
    /\ printed' = printed \cup {ResultsDirNotFound}
    /\ UNCHANGED <<load_order, df, written, reports>>
    /\ UNCHANGED <<output_format, csv_path, sa_pc, sa_out>>

\* variant: only the console format is reported, another format is an error
MainStartConsoleOnly ==
    /\ pc = "main"
    /\ fs.exists
    /\ pc' = IF output_format = "console" THEN "load_results" ELSE "exit1"
    /\ exp_idx' = IF output_format = "console" THEN 1 ELSE 0
    /\ experiments' = <<>>
    /\ UNCHANGED <<stats_path, result, fs, todo, experiment_data, warnings, opened>>
    /\ UNCHANGED <<load_order, df, written, printed, reports>>
    /\ UNCHANGED <<output_format, csv_path, sa_pc, sa_out>>

\* main: the analyzer is created and generate_summary_report starts loading
MainStart ==
    /\ pc = "main"
    /\ fs.exists
    /\ pc' = "load_results"
    /\ exp_idx' = 1
    /\ experiments' = <<>>
    /\ UNCHANGED <<stats_path, result, fs, todo, experiment_data, warnings, opened>>
    /\ UNCHANGED <<load_order, df, written, printed, reports>>
    /\ UNCHANGED <<output_format, csv_path, sa_pc, sa_out>>

\* load_experiment_results: the directory of this iteration does not exist
SkipExperiment ==
    /\ pc = "load_results"
    /\ exp_idx <= Len(experiment_dirs)
    /\ exp_dir \notin DOMAIN fs.dirs
    /\ exp_idx' = exp_idx + 1
    /\ UNCHANGED <<stats_path, result, fs, pc, todo, experiment_data, experiments,
                   warnings, opened>>
    /\ UNCHANGED <<load_order, df, written, printed, reports>>
    /\ UNCHANGED <<output_format, csv_path, sa_pc, sa_out>>

\* load_experiment_results: the directory exists, load_experiment_data is called
EnterExperiment ==
    /\ pc = "load_results"
    /\ exp_idx <= Len(experiment_dirs)
    /\ exp_dir \in DOMAIN fs.dirs
    /\ pc' = "load_data"
    /\ todo' = DOMAIN fs.dirs[exp_dir]
    /\ experiment_data' = <<>>
    /\ UNCHANGED <<stats_path, result, fs, exp_idx, experiments, warnings, opened>>
    /\ UNCHANGED <<load_order, df, written, printed, reports>>
    /\ UNCHANGED <<output_format, csv_path, sa_pc, sa_out>>

\* the body of the loop of load_experiment_data for the workload directory w,
\* where r is the outcome of parse_stats_file(stats_file)
RecordWorkload(w, entry, r) ==
    /\ warnings' = IF r.warned THEN warnings \cup {<<exp_dir, w>>} ELSE warnings
    /\ opened' = IF r.opened THEN opened \cup {<<exp_dir, w>>} ELSE opened
    /\ IF r.exc # "none"
       THEN pc' = "raised" /\ UNCHANGED <<experiment_data, load_order>>
       ELSE /\ pc' = pc
            /\ load_order' = Append(load_order, <<exp_dir, w>>)
            /\ experiment_data' =
                   Put(experiment_data, w,
                       [stats |-> r.metrics,
                        config_path |-> IF entry.config
                                        THEN <<exp_dir, w, "config.ini">>
                                        ELSE <<>>])

\* variant: every entry is taken for a workload directory (no is_dir test)
VisitEntryAny(w, entry) == RecordWorkload(w, entry, parse_stats_file(entry.stats))

\* load_experiment_data: one iteration over exp_path.iterdir(), on entry w
VisitEntry(w, entry) ==
    IF ~entry.is_dir
    THEN UNCHANGED <<pc, experiment_data, warnings, opened, load_order>>
    ELSE RecordWorkload(w, entry, parse_stats_file(entry.stats))

LoadWorkload(w) ==
    /\ pc = "load_data"
    /\ w \in todo
    /\ todo' = todo \ {w}
    /\ VisitEntry(w, fs.dirs[exp_dir][w])
    /\ UNCHANGED <<stats_path, result, fs, exp_idx, experiments>>
    /\ UNCHANGED <<df, written, printed, reports>>
    /\ UNCHANGED <<output_format, csv_path, sa_pc, sa_out>>

\* load_experiment_data returns and its result is stored under the experiment
FinishExperiment ==
    /\ pc = "load_data"
    /\ todo = {}
    /\ experiments' = Put(experiments, exp_dir, experiment_data)
    /\ exp_idx' = exp_idx + 1
    /\ pc' = "load_results"
    /\ UNCHANGED <<stats_path, result, fs, todo, experiment_data, warnings, opened>>
    /\ UNCHANGED <<load_order, df, written, printed, reports>>
    /\ UNCHANGED <<output_format, csv_path, sa_pc, sa_out>>

\* load_experiment_results returns
LoadDone ==
    /\ pc = "load_results"
    /\ exp_idx > Len(experiment_dirs)
    /\ pc' = "loaded"
    /\ UNCHANGED <<stats_path, result, fs, exp_idx, todo, experiment_data, experiments,
                   warnings, opened>>
    /\ UNCHANGED <<load_order, df, written, printed, reports>>
    /\ UNCHANGED <<output_format, csv_path, sa_pc, sa_out>>

----------------------------------------------------------------------------
(* generate_performance_comparison and plot_ipc_comparison                 *)

\* variant: the default is taken whether or not the key is there
GetDefault(stats, key, default) == default

\* stats.get(key, default)
Get(stats, key, default) == IF key \in DOMAIN stats THEN stats[key] ELSE default

\* the row built from one workload's report
Row(exp_name, workload, stats) ==
    [experiment       |-> exp_name,
     workload         |-> workload,
     ipc              |-> Get(stats, "ipc", IntVal(0)),
     sim_seconds      |-> Get(stats, "sim_seconds", IntVal(0)),
     committedInsts   |-> Get(stats, "committedInsts", IntVal(0)),
     branch_accuracy  |-> Get(stats, "branch_accuracy", IntVal(0)),
     dcache_hit_rate  |-> Get(stats, "dcache_hit_rate", IntVal(0)),
     l2cache_hit_rate |-> Get(stats, "l2cache_hit_rate", IntVal(0))]

RECURSIVE ComparisonDataFrom(_, _, _)
\* the rows from order[i] on, leaving out the workloads whose report is empty
ComparisonDataFrom(order, exps, i) ==
    IF i > Len(order) THEN <<>>
    ELSE (IF exps[order[i][1]][order[i][2]].stats = EmptyMetrics THEN <<>>
          ELSE <<Row(order[i][1], order[i][2], exps[order[i][1]][order[i][2]].stats)>>)
         \o ComparisonDataFrom(order, exps, i + 1)

\* variant: a workload without any metric gets no row
ComparisonDataMeasured(order, exps) == ComparisonDataFrom(order, exps, 1)

\* comparison_data: one row appended per workload of every experiment, in the
\* iteration order of the two dictionaries
ComparisonData(order, exps) ==
    [i \in 1..Len(order) |->
        Row(order[i][1], order[i][2], exps[order[i][1]][order[i][2]].stats)]

\* variant: a missing field is written into the stored report as 0
\* (stats.setdefault(key, 0))
ExperimentsFilled(exps) ==
    [e \in DOMAIN exps |->
        [w \in DOMAIN exps[e] |->
            [exps[e][w] EXCEPT
                !.stats = [k \in DOMAIN @ \cup {"ipc", "sim_seconds", "committedInsts",
                                                 "branch_accuracy", "dcache_hit_rate",
                                                 "l2cache_hit_rate"} |->
                              IF k \in DOMAIN @ THEN @[k] ELSE IntVal(0)]]]]

\* what building the rows leaves in self.experiments: get() writes nothing
ExperimentsAfterRows(exps) == exps

\* pd.DataFrame(comparison_data); df is returned unless it is empty
Frame(rows) == [computed |-> TRUE, rows |-> rows]
\* variant: the frame is taken as not empty whatever it holds
IsNoneNever(frame) == FALSE

\* the frame is empty: generate_performance_comparison returns None
IsNone(frame) == frame.rows = <<>>

CsvFile == "performance_comparison.csv"
PlotFile == "ipc_comparison.png"

\* generate_performance_comparison
GeneratePerformanceComparison ==
    /\ pc = "loaded"
    /\ df' = Frame(ComparisonData(load_order, experiments))
    /\ experiments' = ExperimentsAfterRows(experiments)
    /\ IF IsNone(df')
       THEN /\ printed' = printed \cup {Msg("comparison", "No experiment data found!")}
            /\ written' = written
            /\ pc' = "branch_analysis"
       ELSE /\ printed' = printed \cup {Msg("comparison", "Performance Summary")}
            /\ written' = written \cup {CsvFile}
            /\ pc' = "plot"
    /\ UNCHANGED <<stats_path, result, fs, exp_idx, todo, experiment_data, warnings,
                   opened, load_order, reports>>
    /\ UNCHANGED <<output_format, csv_path, sa_pc, sa_out>>

\* a cell of the ipc column is text: the column is not numeric
TextInIpc(frame) == \E i \in 1..Len(frame.rows) : frame.rows[i].ipc.kind = "str"

\* plot_ipc_comparison(df), called when df is not None: it returns at once for
\* an empty frame, and saves the figure otherwise
PlotIpcComparison ==
    /\ pc = "plot"
    /\ written' = IF df.rows = <<>> THEN written ELSE written \cup {PlotFile}
    /\ pc' = "branch_analysis"
    /\ UNCHANGED <<stats_path, result, fs, exp_idx, todo, experiment_data, experiments,
                   warnings, opened, load_order, df, printed, reports>>
    /\ UNCHANGED <<output_format, csv_path, sa_pc, sa_out>>

\* plot_ipc_comparison(df) when a bar height is text: the plotting library may
\* reject the heights, and the exception ends the run
PlotRaises ==
    /\ pc = "plot"
    /\ TextInIpc(df)
    /\ pc' = "raised"
    /\ UNCHANGED <<stats_path, result, fs, exp_idx, todo, experiment_data, experiments,
                   warnings, opened, load_order, df, written, printed, reports>>
    /\ UNCHANGED <<output_format, csv_path, sa_pc, sa_out>>

----------------------------------------------------------------------------
(* analyze_branch_prediction_impact and analyze_superscalar_scaling        *)

\* the exception of f"{value:.4f}": the code f is unknown for a str
FormatExc(fig) ==
    IF fig.fmt = ".4f" /\ fig.value.kind = "str" THEN "ValueError" ELSE "none"

RECURSIVE PrintFigs(_, _, _)
\* the prints of figs[i], figs[i+1], ...; the first one that raises ends them
PrintFigs(figs, i, out) ==
    IF i > Len(figs) THEN [exc |-> "none", out |-> out]
    ELSE IF FormatExc(figs[i]) # "none" THEN [exc |-> FormatExc(figs[i]), out |-> out]
    ELSE PrintFigs(figs, i + 1, out \cup {figs[i]})

\* the four prints of analyze_branch_prediction_impact for one workload
BranchFigs(w, stats) ==
    << Fig("branch", w, "IPC", Get(stats, "ipc", IntVal(0)), ".4f"),
       Fig("branch", w, "Branch Accuracy", Get(stats, "branch_accuracy", IntVal(0)), ".4f"),
       Fig("branch", w, "Branch Lookups", Get(stats, "branch_lookups", IntVal(0)), ""),
       Fig("branch", w, "Branch Mispredictions",
           Get(stats, "branch_condIncorrect", IntVal(0)), "") >>

\* the four prints of analyze_superscalar_scaling for one workload
SuperscalarFigs(w, stats) ==
    << Fig("superscalar", w, "IPC", Get(stats, "ipc", IntVal(0)), ".4f"),
       Fig("superscalar", w, "Fetch Rate", Get(stats, "fetch_rate", IntVal(0)), ".4f"),
       Fig("superscalar", w, "Decode Rate", Get(stats, "decode_rate", IntVal(0)), ".4f"),
       Fig("superscalar", w, "Commit Rate", Get(stats, "commit_rate", IntVal(0)), ".4f") >>

RECURSIVE FigsOf(_, _, _, _)
\* the prints of the loop over the workloads of experiment exp, from order[i] on
FigsOf(exp, order, exps, i) ==
    IF i > Len(order) THEN <<>>
    ELSE IF order[i][1] # exp THEN FigsOf(exp, order, exps, i + 1)
    ELSE (IF exp = "branch_prediction"
          THEN BranchFigs(order[i][2], exps[exp][order[i][2]].stats)
          ELSE SuperscalarFigs(order[i][2], exps[exp][order[i][2]].stats))
         \o FigsOf(exp, order, exps, i + 1)

\* the notice an analysis prints when its experiment was not loaded, and the
\* header it prints otherwise
NotFound(exp) == Msg(exp, "experiment data not found")
Header(exp) == Msg(exp, "=== Analysis ===")

\* variant: with an empty table the analysis is skipped
AnalysisUnlessEmpty(exp, next, r) ==
    IF IsNone(df) THEN printed' = printed /\ pc' = next
    ELSE IF exp \notin DOMAIN experiments
    THEN /\ printed' = printed \cup {NotFound(exp)}
         /\ pc' = next
    ELSE /\ printed' = printed \cup {Header(exp)} \cup r.out
         /\ pc' = IF r.exc # "none" THEN "raised" ELSE next

\* the body shared by the two analyses, where r is the outcome of their prints
Analysis(exp, next, r) ==
    IF exp \notin DOMAIN experiments
    THEN /\ printed' = printed \cup {NotFound(exp)}
         /\ pc' = next
    ELSE /\ printed' = printed \cup {Header(exp)} \cup r.out
         /\ pc' = IF r.exc # "none" THEN "raised" ELSE next

AnalyzeBranchPredictionImpact ==
    /\ pc = "branch_analysis"
    /\ Analysis("branch_prediction", "superscalar_analysis",
                PrintFigs(FigsOf("branch_prediction", load_order, experiments, 1), 1, {}))
    /\ UNCHANGED <<stats_path, result, fs, exp_idx, todo, experiment_data, experiments,
                   warnings, opened, load_order, df, written, reports>>
    /\ UNCHANGED <<output_format, csv_path, sa_pc, sa_out>>

AnalyzeSuperscalarScaling ==
    /\ pc = "superscalar_analysis"
    /\ Analysis("superscalar", "insights",
                PrintFigs(FigsOf("superscalar", load_order, experiments, 1), 1, {}))
    /\ UNCHANGED <<stats_path, result, fs, exp_idx, todo, experiment_data, experiments,
                   warnings, opened, load_order, df, written, reports>>
    /\ UNCHANGED <<output_format, csv_path, sa_pc, sa_out>>

----------------------------------------------------------------------------
(* Key insights: the best IPC and the average IPC per label                *)

\* a < b for two numbers
NumLess(a, b) == a.num * b.den < b.num * a.den

\* df['ipc'].idxmax(): the first row that holds the largest ipc
IdxMax(rows) ==
    CHOOSE i \in 1..Len(rows) :
        /\ \A j \in 1..Len(rows) : ~NumLess(rows[i].ipc, rows[j].ipc)
        /\ \A j \in 1..(i - 1) : NumLess(rows[j].ipc, rows[i].ipc)

RECURSIVE SumIpc(_, _, _, _)
\* the sum, as a fraction <<numerator, denominator>>, of the ipc of the rows
\* from rows[i] on whose column col holds label
SumIpc(rows, col, label, i) ==
    IF i > Len(rows) THEN <<0, 1>>
    ELSE LET rest == SumIpc(rows, col, label, i + 1)
         IN  IF rows[i][col] # label THEN rest
             ELSE <<rows[i].ipc.num * rest[2] + rest[1] * rows[i].ipc.den,
                    rows[i].ipc.den * rest[2]>>

\* the number of rows whose column col holds label
CountRows(rows, col, label) ==
    Cardinality({i \in 1..Len(rows) : rows[i][col] = label})

\* variant: the sum of the group over the number of all rows
GroupMeanAllRows(rows, col, label) ==
    LET sum == SumIpc(rows, col, label, 1)
    IN  FloatVal(sum[1], sum[2] * Len(rows))

\* df.groupby(col)['ipc'].mean() at label: the sum of the group over its size
GroupMean(rows, col, label) ==
    LET sum == SumIpc(rows, col, label, 1)
    IN  FloatVal(sum[1], sum[2] * CountRows(rows, col, label))

\* the labels of a column
Labels(rows, col) == {rows[i][col] : i \in 1..Len(rows)}

\* the lines printed under Key Insights for a frame that is not empty
InsightLines(rows) ==
    {Fig("Best IPC", rows[IdxMax(rows)].workload, rows[IdxMax(rows)].experiment,
         rows[IdxMax(rows)].ipc, ".4f")}
    \cup {Fig("Average IPC by workload", l, "", GroupMean(rows, "workload", l), ".4f") :
              l \in Labels(rows, "workload")}
    \cup {Fig("Average IPC by experiment", "", l, GroupMean(rows, "experiment", l), ".4f") :
              l \in Labels(rows, "experiment")}

\* the end of generate_summary_report, and the return 0 of main
KeyInsights ==
    /\ pc = "insights"
    /\ IF IsNone(df)
       THEN printed' = printed \cup {Msg("summary", "Analysis complete!")} /\ pc' = "exit0"
       ELSE IF TextInIpc(df)
       THEN UNCHANGED printed /\ pc' = "raised"
       ELSE /\ printed' = printed \cup InsightLines(df.rows) \cup {Msg("summary", "Analysis complete!")}
            /\ pc' = "exit0"
    /\ UNCHANGED <<stats_path, result, fs, exp_idx, todo, experiment_data, experiments,
                   warnings, opened, load_order, df, written, reports>>
    /\ UNCHANGED <<output_format, csv_path, sa_pc, sa_out>>

Next ==
    \/ MainNoDir
    \/ MainStart
    \/ SkipExperiment
    \/ EnterExperiment
    \/ \E w \in EntryNames : LoadWorkload(w)
    \/ FinishExperiment
    \/ LoadDone
    \/ GeneratePerformanceComparison
    \/ PlotIpcComparison
    \/ PlotRaises
    \/ AnalyzeBranchPredictionImpact
    \/ AnalyzeSuperscalarScaling
    \/ KeyInsights

Spec == Init /\ [][Next]_vars

----------------------------------------------------------------------------
(* Specification of one call on a text of counter lines                    *)

\* the eight counters the derived metrics are computed from, in catalog order
CounterKeys ==
    << "system.cpu.branchPred.condPredicted", "system.cpu.branchPred.condIncorrect",
       "system.cpu.icache.overall_hits::total", "system.cpu.icache.overall_misses::total",
       "system.cpu.dcache.overall_hits::total", "system.cpu.dcache.overall_misses::total",
       "system.l2cache.overall_hits::total", "system.l2cache.overall_misses::total" >>

\* what a text may show for a counter: no line (the empty token), or a token
BranchTokens == {<<>>, <<"0">>, <<"1", "3">>, <<"1", "0", "0">>}
CacheTokens == {<<>>, <<"0">>, <<"8", "0">>}

RECURSIVE CounterText(_, _)
\* the text with a line for every counter from the i-th on that has a token
CounterText(tok, i) ==
    IF i > Len(CounterKeys) THEN <<>>
    ELSE (IF tok[i] = <<>> THEN <<>> ELSE Line(CounterKeys[i], tok[i]))
         \o CounterText(tok, i + 1)

\* the icache counters may also be 1 or large, the hits also beyond int()
\* a token of more digits than int() converts
LongToken == <<"9", "9", "9", "9", "9", "9", "9", "9", "9">>

IcacheHitTokens == CacheTokens \cup {<<"1">>, <<"9", "9", "9", "9">>, LongToken}
IcacheMissTokens == CacheTokens \cup {<<"1">>, <<"9", "9", "9", "9", "9">>}

\* the l2cache counters are absent or 0
L2Tokens == {<<>>, <<"0">>}

InitCounters ==
    /\ \E b \in [1..2 -> BranchTokens] : \E c \in [5..6 -> CacheTokens] :
          \E l \in [7..8 -> L2Tokens] :
             \E ih \in IcacheHitTokens : \E im \in IcacheMissTokens :
                stats_path = File(CounterText([i \in 1..8 |-> IF i <= 2 THEN b[i]
                                                               ELSE IF i = 3 THEN ih
                                                               ELSE IF i = 4 THEN im
                                                               ELSE IF i <= 6 THEN c[i]
                                                               ELSE l[i]], 1))
    /\ result = NoCall
    /\ RunIdle

SpecCounters == InitCounters /\ [][NextExtract]_vars

----------------------------------------------------------------------------
(* Specification of the run under every --output-format                    *)

\* choices=['console', 'html', 'pdf']
OutputFormats == {"console", "html", "pdf"}

\* at most MaxFormatEntries entries in the trees of these runs
MaxFormatEntries == 1

\* the entries of a tree with directories D, at most MaxFormatEntries of them
FewPlacements(D) ==
    UNION {[S -> Entries] :
              S \in {T \in SUBSET (D \X EntryNames) : Cardinality(T) <= MaxFormatEntries}}

InitFormats ==
    /\ ExtractIdle
    /\ \/ fs = NoDir
       \/ \E D \in SUBSET DirNames : \E a \in FewPlacements(D) : fs = ResultsDir(D, a)
    /\ output_format \in OutputFormats
    /\ pc = "main"
    /\ exp_idx = 0
    /\ todo = {}
    /\ experiment_data = <<>>
    /\ experiments = <<>>
    /\ warnings = {}
    /\ opened = {}
    /\ load_order = <<>>
    /\ df = NoFrame
    /\ written = {}
    /\ printed = {}
    /\ reports = <<>>
    /\ SimpleIdle

SpecFormats == InitFormats /\ [][Next]_vars

----------------------------------------------------------------------------
(* simple_analysis.py: the analysis of the performance summary CSV.  A row *)
(* is a csv.DictReader row; its Configuration and IPC cells are texts.     *)
(* The Cycles, Cache_Hit_Rate and Branch_Accuracy cells are taken to hold  *)
(* well-formed numbers and are left out.  The figures of a call are the    *)
(* ones printed by a call that returned.                                   *)

analyzer_vars == <<stats_path, result, fs, pc, exp_idx, todo, experiment_data,
                   experiments, warnings, opened, load_order, df, written, printed,
                   reports, output_format>>

CsvRow(exp, conf, workload, ipc) ==
    [Experiment |-> exp, Configuration |-> conf, Workload |-> workload, IPC |-> ipc]

\* the rows with float(row['IPC']) evaluated: the conversion is done once for
\* each row, the code repeats it at each use
FloatRows(data) ==
    [i \in 1..Len(data) |->
        [Experiment |-> data[i].Experiment, Configuration |-> data[i].Configuration,
         Workload |-> data[i].Workload, IPC |-> data[i].IPC,
         ipc |-> PyFloat(data[i].IPC)]]

\* float(row['IPC']) of a row of FloatRows
Ipc(row) == row.ipc.val

\* some float(row['IPC']) raises
BadIpc(data) == \E i \in 1..Len(data) : data[i].ipc.exc # "none"

SimpleFig(what, exp, conf, workload, ipc, value) ==
    [what |-> what, experiment |-> exp, config |-> conf, workload |-> workload,
     ipc |-> ipc, value |-> value]

SimpleReturned(figs) == [exc |-> "none", figs |-> figs]

SimpleRaised(e) == [exc |-> e, figs |-> {}]

\* x * 100
Times100(r) == IF r.exc # "none" THEN r ELSE Ok(FloatVal(r.val.num * 100, r.val.den))

\* the row is of the experiment, the configuration and the workload; "" and
\* <<>> stand for any
RowMatches(row, exp, conf, w) ==
    /\ exp # "" => row.Experiment = exp
    /\ conf # <<>> => row.Configuration = conf
    /\ w # "" => row.Workload = w

\* [row for row in data if ...]: the matching rows from row i on, in order
RECURSIVE Rows(_, _, _, _, _)
Rows(data, i, exp, conf, w) ==
    IF i > Len(data) THEN <<>>
    ELSE (IF RowMatches(data[i], exp, conf, w) THEN <<data[i]>> ELSE <<>>)
            \o Rows(data, i + 1, exp, conf, w)

\* {row['Workload']: float(row['IPC']) for row in groups.get(base, [])}: the
\* last row of a workload is the one kept
Baseline(data, base) ==
    LET idx(w) == {i \in 1..Len(data) :
                      data[i].Configuration = base /\ data[i].Workload = w}
        last(w) == CHOOSE i \in idx(w) : \A j \in idx(w) : j <= i
    IN  [w \in {data[i].Workload : i \in {k \in 1..Len(data) : data[k].Configuration = base}}
            |-> Ipc(data[last(w)])]

\* sum(float(row['IPC']) for row in data)
RECURSIVE SumOfIpc(_, _)
SumOfIpc(data, i) ==
    IF i > Len(data) THEN IntVal(0)
    ELSE LET rest == SumOfIpc(data, i + 1)
             v    == Ipc(data[i])
         IN  FloatVal(v.num * rest.den + rest.num * v.den, v.den * rest.den)

\* sum(...) / len(data)
AverageIpc(data) == PyTrueDiv(SumOfIpc(data, 1), IntVal(Len(data)))

\* max(data, key=...) and min(data, key=...): the first row with the extreme key
FirstMax(data) ==
    CHOOSE i \in 1..Len(data) :
        /\ \A j \in 1..Len(data) : ~NumLess(Ipc(data[i]), Ipc(data[j]))
        /\ \A j \in 1..(i - 1) : NumLess(Ipc(data[j]), Ipc(data[i]))

FirstMin(data) ==
    CHOOSE i \in 1..Len(data) :
        /\ \A j \in 1..Len(data) : ~NumLess(Ipc(data[j]), Ipc(data[i]))
        /\ \A j \in 1..(i - 1) : NumLess(Ipc(data[i]), Ipc(data[j]))

\* the exception of the first of the outcomes that raised, "none" without one
FirstExc(outs) ==
    IF \A i \in 1..Len(outs) : outs[i].exc = "none" THEN "none"
    ELSE outs[CHOOSE i \in 1..Len(outs) :
                 /\ outs[i].exc # "none"
                 /\ \A j \in 1..(i - 1) : outs[j].exc = "none"].exc

analyze_basic_pipeline(data) ==
    LET avg == AverageIpc(data)
        b   == data[FirstMax(data)]
        w   == data[FirstMin(data)]
    IN  IF avg.exc # "none" THEN SimpleRaised(avg.exc)
        ELSE SimpleReturned({SimpleFig("avg_ipc", "Basic Pipeline", <<>>, "", <<>>, avg.val),
                       SimpleFig("best", "Basic Pipeline", b.Configuration, b.Workload,
                                 b.IPC, Ipc(b)),
                       SimpleFig("worst", "Basic Pipeline", w.Configuration, w.Workload,
                                 w.IPC, Ipc(w))})

\* lines 88-91 of analyze_branch_prediction
Improvement(baseline, row) ==
    IF row.Workload \in DOMAIN baseline /\ baseline[row.Workload].num > 0
    THEN Times100(PyTrueDiv(PySub(Ipc(row), baseline[row.Workload]).val,
                            baseline[row.Workload]))
    ELSE Ok(IntVal(0))

analyze_branch_prediction(data) ==
    LET baseline   == Baseline(data, <<"none">>)
        predictors == {data[i].Configuration : i \in 1..Len(data)}
        group(p)   == Rows(data, 1, "", p, "")
        imp        == [i \in 1..Len(data) |-> Improvement(baseline, data[i])]
        avgs       == {AverageIpc(group(p)) : p \in predictors}
    IN  IF FirstExc(imp) # "none" THEN SimpleRaised(FirstExc(imp))
        ELSE IF \E a \in avgs : a.exc # "none"
        THEN SimpleRaised((CHOOSE a \in avgs : a.exc # "none").exc)
        ELSE SimpleReturned(
               {SimpleFig("improvement", "Branch Prediction", data[i].Configuration,
                          data[i].Workload, data[i].IPC, imp[i].val) : i \in 1..Len(data)}
               \cup {SimpleFig("avg_ipc", "Branch Prediction", p, "", <<>>,
                               AverageIpc(group(p)).val) : p \in predictors})

\* int(width[0])
IssueNum(width) == PyInt(<<width[1]>>)

\* lines 127-130 and 145 of analyze_superscalar
Scaling(baseline, row) ==
    IF row.Workload \in DOMAIN baseline /\ baseline[row.Workload].num > 0
    THEN PyTrueDiv(Ipc(row), baseline[row.Workload])
    ELSE Ok(FloatVal(1, 1))

\* (ipc / issue_num) * 100
Efficiency(row, issue_num) ==
    IF issue_num.exc # "none" THEN issue_num
    ELSE Times100(PyTrueDiv(Ipc(row), issue_num.val))

analyze_superscalar(data) ==
    LET baseline == Baseline(data, <<"1", "way">>)
        keys     == [i \in 1..Len(data) |-> IssueNum(data[i].Configuration)]
        eff      == [i \in 1..Len(data) |->
                        Efficiency(data[i], IssueNum(data[i].Configuration))]
        sc       == [i \in 1..Len(data) |-> Scaling(baseline, data[i])]
        \* the first row of its width that has the workload
        IsFirst(i) == \A j \in 1..(i - 1) :
                         ~(/\ data[j].Configuration = data[i].Configuration
                           /\ data[j].Workload = data[i].Workload)
    IN  IF FirstExc(keys) # "none" THEN SimpleRaised(FirstExc(keys))
        ELSE IF FirstExc(eff) # "none" THEN SimpleRaised(FirstExc(eff))
        ELSE IF FirstExc(sc) # "none" THEN SimpleRaised(FirstExc(sc))
        ELSE SimpleReturned(
               {SimpleFig("efficiency", "Superscalar", data[i].Configuration,
                          data[i].Workload, data[i].IPC, eff[i].val) : i \in 1..Len(data)}
               \cup {SimpleFig("scaling", "Superscalar", data[i].Configuration,
                               data[i].Workload, data[i].IPC, sc[i].val) : i \in 1..Len(data)}
               \cup {SimpleFig("scaling_summary", "Superscalar", data[i].Configuration,
                               data[i].Workload, data[i].IPC, sc[i].val) :
                        i \in {k \in 1..Len(data) :
                                  data[k].Workload \in DOMAIN baseline /\ IsFirst(k)}})

\* the experiment types of data in the order of their first rows
RECURSIVE ExperimentOrder(_, _, _)
ExperimentOrder(data, i, seen) ==
    IF i > Len(data) THEN <<>>
    ELSE IF data[i].Experiment \in seen THEN ExperimentOrder(data, i + 1, seen)
    ELSE <<data[i].Experiment>>
            \o ExperimentOrder(data, i + 1, seen \cup {data[i].Experiment})

analyze_performance_summary(data) ==
    LET types == ExperimentOrder(data, 1, {})
        known == {"Basic Pipeline", "Branch Prediction", "Superscalar"}
        bad   == \E i \in 1..Len(data) :
                    data[i].Experiment \in known /\ data[i].ipc.exc # "none"
        group(t) == Rows(data, 1, t, <<>>, "")
        outs == [k \in 1..Len(types) |->
                    IF types[k] = "Basic Pipeline" THEN analyze_basic_pipeline(group(types[k]))
                    ELSE IF types[k] = "Branch Prediction"
                    THEN analyze_branch_prediction(group(types[k]))
                    ELSE IF types[k] = "Superscalar"
                    THEN analyze_superscalar(group(types[k]))
                    ELSE SimpleReturned({})]
    IN  IF bad THEN SimpleRaised("ValueError")
        ELSE IF FirstExc(outs) # "none" THEN SimpleRaised(FirstExc(outs))
        ELSE SimpleReturned(UNION {outs[k].figs : k \in 1..Len(types)})

InsightWorkloads == {"simple_loop", "branch_intensive", "parallel_workload"}

\* next((row for row in data if ...), None): 0 stands for None
FirstRow(data, exp, conf, w) ==
    IF \A i \in 1..Len(data) : ~RowMatches(data[i], exp, conf, w) THEN 0
    ELSE CHOOSE i \in 1..Len(data) :
            /\ RowMatches(data[i], exp, conf, w)
            /\ \A j \in 1..(i - 1) : ~RowMatches(data[j], exp, conf, w)

generate_insights(data) ==
    LET t        == FirstRow(data, "Branch Prediction", <<"tournament">>, "branch_intensive")
        n        == FirstRow(data, "Branch Prediction", <<"none">>, "branch_intensive")
        e        == FirstRow(data, "Superscalar", <<"8", "way">>, "parallel_workload")
        imp      == Times100(PyTrueDiv(PySub(Ipc(data[t]), Ipc(data[n])).val,
                                       Ipc(data[n])))
        of(w)    == Rows(data, 1, "", <<>>, w)
        best     == data[FirstMax(data)]
    IN  IF data = <<>> \/ BadIpc(data) THEN SimpleRaised("ValueError")
        ELSE IF t # 0 /\ n # 0 /\ imp.exc # "none" THEN SimpleRaised(imp.exc)
        ELSE SimpleReturned(
               {SimpleFig("best_overall", best.Experiment, best.Configuration,
                          best.Workload, best.IPC, Ipc(best))}
               \cup (IF t # 0 /\ n # 0
                     THEN {SimpleFig("insight_improvement", "Branch Prediction",
                                     <<"tournament">>, "branch_intensive", data[n].IPC,
                                     imp.val)}
                     ELSE {})
               \cup (IF e # 0
                     THEN {SimpleFig("efficiency_8way", "Superscalar", <<"8", "way">>,
                                     "parallel_workload", data[e].IPC,
                                     FloatVal(Ipc(data[e]).num * 100,
                                              Ipc(data[e]).den * 8))}
                     ELSE {})
               \cup {SimpleFig("avg_ipc", "", <<>>, w, <<>>, AverageIpc(of(w)).val) :
                        w \in {x \in InsightWorkloads : of(x) # <<>>}})

\* main: the CSV is missing
SimpleMainNoCsv ==
    /\ sa_pc = "main"
    /\ ~csv_path.exists
    /\ sa_pc' = "exit1"
    /\ UNCHANGED <<csv_path, sa_out>>
    /\ UNCHANGED analyzer_vars

\* main: analyze_performance_summary(csv_path)
AnalyzePerformanceSummary ==
    /\ sa_pc = "main"
    /\ csv_path.exists
    /\ LET r == analyze_performance_summary(FloatRows(csv_path.data))
       IN  /\ sa_out' = r
           /\ sa_pc' = IF r.exc = "none" THEN "insights" ELSE "raised"
    /\ UNCHANGED csv_path
    /\ UNCHANGED analyzer_vars

\* main: generate_insights(csv_path), then return 0
GenerateInsights ==
    /\ sa_pc = "insights"
    /\ LET r == generate_insights(FloatRows(csv_path.data))
       IN  /\ sa_out' = [exc |-> r.exc, figs |-> sa_out.figs \cup r.figs]
           /\ sa_pc' = IF r.exc = "none" THEN "exit0" ELSE "raised"
    /\ UNCHANGED csv_path
    /\ UNCHANGED analyzer_vars

NextSimple == SimpleMainNoCsv \/ AnalyzePerformanceSummary \/ GenerateInsights

\* at most MaxCsvRows rows in the CSV
MaxCsvRows == 2

CsvWorkloads == {"branch_intensive", "simple_loop"}

\* IPC cells: non-negative numbers
CsvIpcTokens == {<<"0">>, <<"1">>, <<"2">>}

CsvGroups ==
    {<<"Basic Pipeline", <<"default">>>>}
        \cup ({"Branch Prediction"} \X {<<"none">>, <<"tournament">>})
        \cup ({"Superscalar"} \X {<<"0", "way">>, <<"1", "way">>, <<"2", "way">>})

CsvRows ==
    {CsvRow(g[1], g[2], w, t) : g \in CsvGroups, w \in CsvWorkloads, t \in CsvIpcTokens}

InitSimple ==
    /\ ExtractIdle
    /\ AnalyzerIdle
    /\ \/ csv_path = NoCsv
       \/ \E n \in 0..MaxCsvRows : \E rows \in [1..n -> CsvRows] :
             csv_path = [exists |-> TRUE, data |-> rows]
    /\ sa_pc = "main"
    /\ sa_out = NoOutput

SpecSimple == InitSimple /\ [][NextSimple]_vars

----------------------------------------------------------------------------
(* Specification of the key insights over loaded reports with an ipc       *)

\* at most MaxRows workloads are loaded
MaxRows == 3

\* the experiments and workload directories of these runs
AggExperiments == {"branch_prediction", "superscalar"}
AggWorkloads == {"w1", "w2", "w3"}

\* the ipc tokens of their stats.txt: 1.0, 2.0, 3.0 and 0
IpcTokens == {<<"1", ".", "0">>, <<"2", ".", "0">>, <<"3", ".", "0">>, <<"0">>}

\* the position of an experiment name in experiment_dirs
DirIndex(e) == CHOOSE i \in 1..Len(experiment_dirs) : experiment_dirs[i] = e

\* an insertion order the loading can produce: no pair twice, and the
\* experiments in the order of experiment_dirs
IsLoadOrder(order) ==
    /\ \A i, j \in 1..Len(order) : i # j => order[i] # order[j]
    /\ \A i, j \in 1..Len(order) : i < j => DirIndex(order[i][1]) <= DirIndex(order[j][1])

\* the tree in which the workload order[i] holds a stats.txt with the one line
\* system.cpu.ipc tok[i]
AggTree(order, tok) ==
    [e \in {order[i][1] : i \in 1..Len(order)} |->
        [w \in {order[i][2] : i \in {k \in 1..Len(order) : order[k][1] = e}} |->
            LET i == CHOOSE k \in 1..Len(order) : order[k] = <<e, w>>
            IN  WorkloadDir(File(Line("system.cpu.ipc", tok[i])), FALSE)]]

\* self.experiments after load_experiment_results on a tree of workload
\* directories whose reports all parse
Loaded(tree) ==
    [e \in DOMAIN tree |->
        [w \in DOMAIN tree[e] |->
            [stats |-> parse_stats_file(tree[e][w].stats).metrics, config_path |-> <<>>]]]

\* what an analysis has printed when it returned
AnalysisOut(exp, order, exps) ==
    IF exp \notin DOMAIN exps THEN {NotFound(exp)}
    ELSE {Header(exp)} \cup PrintFigs(FigsOf(exp, order, exps, 1), 1, {}).out

\* the run at the key insights, after the loading, the comparison, the plot
\* and the two analyses
AtInsights(order, exps) ==
    /\ pc = "insights"
    /\ exp_idx = Len(experiment_dirs) + 1
    /\ todo = {}
    /\ experiments = exps
    /\ experiment_data =
           (IF "superscalar" \in DOMAIN exps THEN exps["superscalar"]
            ELSE IF "branch_prediction" \in DOMAIN exps THEN exps["branch_prediction"]
            ELSE <<>>)
    /\ warnings = {}
    /\ opened = {order[i] : i \in 1..Len(order)}
    /\ load_order = order
    /\ df = Frame(ComparisonData(order, exps))
    /\ written = IF order = <<>> THEN {} ELSE {CsvFile, PlotFile}
    /\ printed = {Msg("comparison", IF order = <<>> THEN "No experiment data found!"
                                                     ELSE "Performance Summary")}
                    \cup AnalysisOut("branch_prediction", order, exps)
                    \cup AnalysisOut("superscalar", order, exps)
    /\ reports = <<>>
    /\ output_format = "console"
    /\ SimpleIdle

InitAggregate ==
    /\ ExtractIdle
    /\ \E n \in 0..MaxRows :
          \E order \in [1..n -> AggExperiments \X AggWorkloads] :
             \E tok \in [1..n -> IpcTokens] :
                /\ IsLoadOrder(order)
                /\ fs = [exists |-> TRUE, dirs |-> AggTree(order, tok)]
                /\ AtInsights(order, Loaded(AggTree(order, tok)))

NextAggregate == KeyInsights

SpecAggregate == InitAggregate /\ [][NextAggregate]_vars

----------------------------------------------------------------------------
(* Specification of successive calls of parse_stats_file on one analyzer   *)

\* at most MaxCalls calls
MaxCalls == 3

\* m1 with the entries of m2 written over it
Overlay(m1, m2) ==
    [k \in DOMAIN m1 \cup DOMAIN m2 |-> IF k \in DOMAIN m2 THEN m2[k] ELSE m1[k]]

\* variant: metrics is one dictionary kept across the calls, so a call starts
\* from the entries the earlier call left
parse_stats_file_reusing(earlier, file) ==
    IF earlier = <<>> THEN parse_stats_file(file)
    ELSE [parse_stats_file(file) EXCEPT
             !.metrics = Overlay(earlier[Len(earlier)].out.metrics, @)]

\* the call parse_stats_file(file) made after the calls earlier: metrics = {}
\* is a new dictionary, and the method reads nothing but the file
parse_stats_file_after(earlier, file) == parse_stats_file(file)

InitCalls == ExtractIdle /\ RunIdle

\* one more call, on any of the files
ParseAgain ==
    /\ pc = "idle"
    /\ Len(reports) < MaxCalls
    /\ \E f \in StatsFiles :
          reports' = Append(reports, [file |-> f, out |-> parse_stats_file_after(reports, f)])
    /\ UNCHANGED <<stats_path, result, fs, pc, exp_idx, todo, experiment_data, experiments,
                   warnings, opened, load_order, df, written, printed>>
    /\ UNCHANGED <<output_format, csv_path, sa_pc, sa_out>>

NextCalls == ParseAgain

SpecCalls == InitCalls /\ [][NextCalls]_vars

----------------------------------------------------------------------------
(* Vocabulary of the properties of one call                                *)

Content == stats_path.content
Report == result.metrics

\* the call returned a report
Returned == result.called /\ result.exc = "none"

\* the call was made on an existing file and returned a report
Parsed == Returned /\ stats_path.exists

Has(k) == k \in DOMAIN Report

DerivedNames == {"branch_accuracy", "icache_hit_rate", "dcache_hit_rate", "l2cache_hit_rate"}

\* at position i stands the key phrase, then white space, then a character of C
ShownAt(i, key, C) ==
    /\ Content[i] = key
    /\ \E w \in (i + 2)..Len(Content) :
          /\ \A j \in (i + 1)..(w - 1) : Content[j] \in WhiteSpace
          /\ Content[w] \in C

Shown(key, C) == \E i \in 1..Len(Content) : ShownAt(i, key, C)

\* the token that follows the first such place: the longest run of C characters
FirstToken(key, C) ==
    LET i == CHOOSE a \in 1..Len(Content) :
                 ShownAt(a, key, C) /\ \A b \in 1..(a - 1) : ~ShownAt(b, key, C)
        w == CHOOSE a \in (i + 2)..Len(Content) :
                 Content[a] \in C /\ \A j \in (i + 1)..(a - 1) : Content[j] \in WhiteSpace
        e == CHOOSE a \in w..Len(Content) :
                 /\ \A j \in w..a : Content[j] \in C
                 /\ (a = Len(Content) \/ Content[a + 1] \notin C)
    IN  SubSeq(Content, w, e)

\* the token the text shows first for catalog metric m
TokenOf(m) == FirstToken(PatternOf(m).key, PatternOf(m).class)
ShownMetric(m) == Shown(PatternOf(m).key, PatternOf(m).class)

\* the text has a line made of name, blanks and the token
HasLine(name, tok) ==
    \E i \in 1..Len(Content) :
        /\ i = 1 \/ Content[i - 1] = "\n"
        /\ Content[i] = name
        /\ \E w \in (i + 2)..Len(Content) :
              /\ \A j \in (i + 1)..(w - 1) : Content[j] = " "
              /\ w + Len(tok) - 1 <= Len(Content)
              /\ SubSeq(Content, w, w + Len(tok) - 1) = tok
              /\ (w + Len(tok) > Len(Content) \/ Content[w + Len(tok)] = "\n")

DotOrE(tok) == \E i \in 1..Len(tok) : tok[i] \in {".", "e", "E"}

Tok1234 == <<"1", ".", "2", "3", "4">>
Tok1000 == <<"1", "0", "0", "0">>

\* the value n/d, as a float
IsFloat(v, n, d) == v.kind = "float" /\ v.num * d = v.den * n

----------------------------------------------------------------------------
(* C1 *)

\* C1 as stated: every text with a line  ipc <blanks> 1.234  yields the float
\* 1.234 under ipc, and every text with a line  sim_insts <blanks> 1000  yields
\* the integer 1000 under sim_insts, whatever else the text contains.
C1_AsStated ==
    Parsed =>
        /\ HasLine("ipc", Tok1234) => Has("ipc") /\ IsFloat(Report["ipc"], 1234, 1000)
        /\ HasLine("sim_insts", Tok1000) =>
               Has("sim_insts") /\ Report["sim_insts"] = IntVal(1000)

\* C1 amended: when the first place where system.cpu.ipc is followed by white
\* space and a numeric character shows the token 1.234, ipc is the float 1.234;
\* when the first place where sim_insts is followed by white space and a digit
\* shows the digits 1000, sim_insts is the integer 1000.
C1_FirstMatch ==
    Parsed =>
        /\ (Shown("system.cpu.ipc", NumClass) /\ FirstToken("system.cpu.ipc", NumClass) = Tok1234)
               => Has("ipc") /\ IsFloat(Report["ipc"], 1234, 1000)
        /\ (Shown("sim_insts", DigClass) /\ FirstToken("sim_insts", DigClass) = Tok1000)
               => Has("sim_insts") /\ Report["sim_insts"] = IntVal(1000)

\* a text whose first ipc line shows 1.234 and whose second ipc line shows 2.5
C1_Witness ==
    /\ Parsed
    /\ Shown("system.cpu.ipc", NumClass)
    /\ FirstToken("system.cpu.ipc", NumClass) = Tok1234
    /\ \E i \in 2..Len(Content) :
           ShownAt(i, "system.cpu.ipc", NumClass) /\ Content[i + 2] = "2"
    /\ IsFloat(Report["ipc"], 617, 500)

----------------------------------------------------------------------------
(* C2 *)

\* C2 as stated: for every catalog metric that matches, the stored value is a
\* float exactly when the captured token has a decimal point or an exponent
\* marker, and an integer otherwise.
C2_AsStated ==
    Parsed =>
        \A m \in CatalogNames :
            ShownMetric(m) =>
                /\ Has(m)
                /\ Report[m].kind = (IF DotOrE(TokenOf(m)) THEN "float" ELSE "int")

\* C2 amended: a stored number is a float exactly when the captured token has
\* a decimal point or an exponent marker and an integer otherwise; a token that
\* is not a number is stored as text; equal tokens give equal values under
\* every metric.
C2_NumericKind ==
    Parsed =>
        /\ \A m \in CatalogNames :
              ShownMetric(m) =>
                  /\ Has(m)
                  /\ Report[m].kind \in {"int", "float", "str"}
                  /\ Report[m].kind = "float" => DotOrE(TokenOf(m))
                  /\ Report[m].kind = "int" => ~DotOrE(TokenOf(m))
                  /\ Report[m].kind = "str" => Report[m].text = TokenOf(m)
        /\ \A m1, m2 \in {m \in CatalogNames : ShownMetric(m)} :
              TokenOf(m1) = TokenOf(m2) => Report[m1] = Report[m2]

\* two metrics capture the same token 7 and both hold the integer 7
C2_Witness ==
    /\ Parsed
    /\ ShownMetric("ipc") /\ ShownMetric("sim_insts")
    /\ TokenOf("ipc") = <<"7">> /\ TokenOf("sim_insts") = <<"7">>
    /\ Report["ipc"] = IntVal(7)

----------------------------------------------------------------------------
(* C3 *)

Pred == Report["branch_condPredicted"]
Incorrect == Report["branch_condIncorrect"]

----------------------------------------------------------------------------
(* C4 *)

\* C4 as stated: whenever branch_condPredicted is extracted as 0, the report
\* holds branch_accuracy = 0.
C4_AsStated ==
    (Parsed /\ Has("branch_condPredicted") /\ Pred.num = 0) =>
            Has("branch_accuracy") /\ IsFloat(Report["branch_accuracy"], 0, 1)

\* C4 amended: whenever branch_condPredicted is extracted as 0 and
\* branch_condIncorrect is extracted, branch_accuracy is 0 whatever the value
\* of branch_condIncorrect.
C4_ZeroPredicted ==
    (Parsed /\ Has("branch_condPredicted") /\ Has("branch_condIncorrect") /\ Pred.num = 0) =>
            /\ Has("branch_accuracy")
            /\ IsFloat(Report["branch_accuracy"], 0, 1)

\* 0 predicted and 13 incorrect were extracted, the accuracy is 0
C4_Witness ==
    /\ Parsed
    /\ Has("branch_condPredicted") /\ Has("branch_condIncorrect")
    /\ Pred = IntVal(0) /\ Incorrect = IntVal(13)
    /\ Report["branch_accuracy"] = FloatVal(0, 1)

----------------------------------------------------------------------------
(* C5 *)

TierNames == {"icache", "dcache", "l2cache"}
Hits(c) == Report[c \o "_overall_hits"]
Misses(c) == Report[c \o "_overall_misses"]
HasBoth(c) == Has(c \o "_overall_hits") /\ Has(c \o "_overall_misses")
Rate(c) == Report[c \o "_hit_rate"]

\* C5: for each cache tier with hits and misses both extracted, hit_rate is
\* hits / (hits + misses) when hits + misses > 0 and 0 when hits + misses = 0;
\* 80 hits and 20 misses give 0.8.
C5_HitRate ==
    Parsed =>
        \A c \in TierNames :
            HasBoth(c) =>
                /\ Has(c \o "_hit_rate")
                /\ Hits(c).num + Misses(c).num > 0
                       => IsFloat(Rate(c), Hits(c).num, Hits(c).num + Misses(c).num)
                /\ Hits(c).num + Misses(c).num = 0 => IsFloat(Rate(c), 0, 1)
                /\ (Hits(c) = IntVal(80) /\ Misses(c) = IntVal(20))
                       => IsFloat(Rate(c), 8, 10)

\* the data cache has 80 hits and 20 misses and the rate 4/5
C5_Witness ==
    /\ Parsed
    /\ HasBoth("dcache")
    /\ Hits("dcache") = IntVal(80) /\ Misses("dcache") = IntVal(20)
    /\ Rate("dcache") = FloatVal(4, 5)

----------------------------------------------------------------------------
(* C6 *)

BranchInputs == Has("branch_condPredicted") /\ Has("branch_condIncorrect")

\* C6 as stated: no division by zero occurs, and each derived ratio is 0 when
\* its denominator is 0 or when the primary metrics it needs are absent.
C6_AsStated ==
    /\ result.exc # "ZeroDivisionError"
    /\ Parsed =>
        /\ (~BranchInputs \/ Pred.num = 0)
               => Has("branch_accuracy") /\ IsFloat(Report["branch_accuracy"], 0, 1)
        /\ \A c \in TierNames :
               (~HasBoth(c) \/ Hits(c).num + Misses(c).num = 0)
                   => Has(c \o "_hit_rate") /\ IsFloat(Rate(c), 0, 1)

\* C6 amended: no division by zero occurs; each derived ratio is 0 when the
\* primary metrics it needs are present and its denominator is 0, and is left
\* out of the report when a primary metric it needs is absent.
C6_GuardedRatios ==
    /\ result.exc # "ZeroDivisionError"
    /\ Parsed =>
        /\ (BranchInputs /\ Pred.num = 0)
               => Has("branch_accuracy") /\ IsFloat(Report["branch_accuracy"], 0, 1)
        /\ ~BranchInputs => ~Has("branch_accuracy")
        /\ \A c \in TierNames :
               /\ (HasBoth(c) /\ Hits(c).num + Misses(c).num = 0)
                      => Has(c \o "_hit_rate") /\ IsFloat(Rate(c), 0, 1)
               /\ ~HasBoth(c) => ~Has(c \o "_hit_rate")

\* the L2 cache has 0 hits and 0 misses and the rate 0, and no branch metric
C6_Witness ==
    /\ Parsed
    /\ HasBoth("l2cache")
    /\ Hits("l2cache") = IntVal(0) /\ Misses("l2cache") = IntVal(0)
    /\ Rate("l2cache") = FloatVal(0, 1)
    /\ ~BranchInputs /\ ~Has("branch_accuracy")

----------------------------------------------------------------------------
(* C7 *)

\* C7: a tier's hit_rate key is in the report if and only if both its hits key
\* and its misses key are; with neither extracted there is no hit_rate key.
C7_RateKeyIffBoth ==
    Parsed =>
        \A c \in TierNames : Has(c \o "_hit_rate") <=> HasBoth(c)

\* the instruction cache hits were extracted, its misses were not: no rate;
\* nothing of the data cache was extracted: no rate
C7_Witness ==
    /\ Parsed
    /\ Has("icache_overall_hits") /\ ~Has("icache_overall_misses")
    /\ ~Has("icache_hit_rate")
    /\ ~Has("dcache_overall_hits") /\ ~Has("dcache_overall_misses")
    /\ ~Has("dcache_hit_rate")

----------------------------------------------------------------------------
(* C8 *)

\* C8: a catalog key is in the report if and only if the text shows its key
\* phrase followed by white space and a character of its class; the report
\* holds no key outside the 24 catalog names and the four derived names.
C8_KeysIffMatched ==
    Parsed =>
        /\ \A m \in CatalogNames : Has(m) <=> ShownMetric(m)
        /\ DOMAIN Report \subseteq CatalogNames \cup DerivedNames
        /\ Cardinality(CatalogNames) = 24

\* the key phrase of ipc stands in the text without a number after it, while
\* sim_insts is matched: ipc is left out and sim_insts is kept
C8_Witness ==
    /\ Parsed
    /\ \E i \in 1..Len(Content) : Content[i] = "system.cpu.ipc"
    /\ ~ShownMetric("ipc") /\ ~Has("ipc")
    /\ Has("sim_insts")

----------------------------------------------------------------------------
(* C9 *)

\* C9: a captured token that is not a number is stored as its text, the
\* metrics after it in the catalog and the derived step are still computed,
\* and no call ends with an exception.
C9_AsStated ==
    result.called =>
        /\ result.exc = "none"
        /\ \A m \in CatalogNames :
               (stats_path.exists /\ ShownMetric(m) /\ Convert(TokenOf(m)).exc # "none") =>
                   /\ Has(m) /\ Report[m] = StrVal(TokenOf(m))
                   /\ \A n \in CatalogNames : ShownMetric(n) => Has(n)
                   /\ \A c \in TierNames : HasBoth(c) => Has(c \o "_hit_rate")

----------------------------------------------------------------------------
(* C10 *)

\* the workload directories of the tree under the names that are loaded
Listed == {experiment_dirs[i] : i \in 1..Len(experiment_dirs)}
IsWorkload(d, w) ==
    d \in DOMAIN fs.dirs /\ w \in DOMAIN fs.dirs[d] /\ fs.dirs[d][w].is_dir
StatsMissing(d, w) == IsWorkload(d, w) /\ ~fs.dirs[d][w].stats.exists

\* what is recorded for a workload whose stats.txt is missing
RecordedEmpty(data, d, w) ==
    /\ w \in DOMAIN data
    /\ data[w].stats = EmptyMetrics
    /\ <<d, w>> \in warnings
    /\ <<d, w>> \notin opened

\* C10: a workload whose stats.txt does not exist gets a warning and an empty
\* report, its path is never opened, the workload is recorded all the same, and
\* the loading goes on with the remaining workloads: a loading that ends with
\* an exception was ended by a stats.txt that exists, and a run that ends the
\* loading has recorded every workload directory.
C10_MissingStatsFile ==
    /\ \A p \in warnings : StatsMissing(p[1], p[2]) /\ p \notin opened
    /\ (pc \in {"load_data", "raised"} /\ exp_idx <= Len(experiment_dirs)) =>
           \A w \in EntryNames :
               (StatsMissing(exp_dir, w) /\ w \notin todo)
                   => RecordedEmpty(experiment_data, exp_dir, w)
    /\ (pc = "raised" /\ exp_idx <= Len(experiment_dirs)) =>
           \E w \in EntryNames :
               /\ IsWorkload(exp_dir, w) /\ fs.dirs[exp_dir][w].stats.exists
               /\ w \notin todo /\ w \notin DOMAIN experiment_data
               /\ <<exp_dir, w>> \in opened
    /\ pc = "loaded" =>
           \A d \in Listed, w \in EntryNames :
               /\ IsWorkload(d, w) => d \in DOMAIN experiments /\ w \in DOMAIN experiments[d]
               /\ StatsMissing(d, w) => RecordedEmpty(experiments[d], d, w)

\* the loading ended; w1 had no stats.txt and is recorded with an empty report,
\* w2 of the same experiment was read and is recorded with its ipc
C10_Witness ==
    /\ pc = "loaded"
    /\ StatsMissing("superscalar", "w1")
    /\ RecordedEmpty(experiments["superscalar"], "superscalar", "w1")
    /\ IsWorkload("superscalar", "w2")
    /\ "ipc" \in DOMAIN experiments["superscalar"]["w2"].stats
    /\ <<"superscalar", "w2">> \in opened

----------------------------------------------------------------------------
(* C11 *)

\* C11: when the results directory does not exist the run is at its start or
\* has ended with exit code 1; at exit code 1 the message naming the path is
\* the only thing printed, no analyzer was created, nothing was loaded, no
\* stats file was looked for or opened, and no CSV or plot was written.
C11_MissingResultsDir ==
    /\ ~fs.exists =>
           /\ pc \in {"main", "exit1"}
           /\ exp_idx = 0 /\ experiments = <<>> /\ experiment_data = <<>>
           /\ load_order = <<>> /\ warnings = {} /\ opened = {}
           /\ ~df.computed /\ written = {}
    /\ pc = "exit1" => ~fs.exists /\ printed = {ResultsDirNotFound}

\* the run ended with exit code 1 after the message on the missing directory
C11_Witness == pc = "exit1" /\ ~fs.exists /\ ResultsDirNotFound \in printed

----------------------------------------------------------------------------
(* C12 *)

\* C12: whenever the results directory exists the run does not end with an
\* exception (it ends by return 0), whatever the directory holds.
C12_AsStated == fs.exists => pc # "raised"

----------------------------------------------------------------------------
(* C13 *)

\* the (experiment, workload) pairs that were loaded
LoadedPairs == {p \in (DOMAIN experiments) \X EntryNames : p[2] \in DOMAIN experiments[p[1]]}

\* the stored report of a loaded pair
StoredReport(p) == experiments[p[1]][p[2]].stats

MetricColumns ==
    {"ipc", "sim_seconds", "committedInsts", "branch_accuracy", "dcache_hit_rate",
     "l2cache_hit_rate"}

\* the rows of the frame for the pair p
RowsOf(p) ==
    {i \in 1..Len(df.rows) : df.rows[i].experiment = p[1] /\ df.rows[i].workload = p[2]}

\* C13: once generate_performance_comparison has run, the frame holds exactly
\* one row per loaded (experiment, workload) pair and no other row; every row
\* has exactly the columns experiment, workload, ipc, sim_seconds,
\* committedInsts, branch_accuracy, dcache_hit_rate, l2cache_hit_rate; a metric
\* column is 0 when the report lacks the field and the report's value otherwise;
\* the stored reports are still what parse_stats_file gave for the files.
C13_OneRowPerPair ==
    df.computed =>
        /\ Len(df.rows) = Cardinality(LoadedPairs)
        /\ \A p \in LoadedPairs : Cardinality(RowsOf(p)) = 1
        /\ \A i \in 1..Len(df.rows) :
              /\ DOMAIN df.rows[i] = {"experiment", "workload"} \cup MetricColumns
              /\ <<df.rows[i].experiment, df.rows[i].workload>> \in LoadedPairs
              /\ \A c \in MetricColumns :
                    LET report == StoredReport(<<df.rows[i].experiment, df.rows[i].workload>>)
                    IN  IF c \in DOMAIN report
                        THEN df.rows[i][c] = report[c]
                        ELSE df.rows[i][c] = IntVal(0)
        /\ \A p \in LoadedPairs :
              StoredReport(p) = parse_stats_file(fs.dirs[p[1]][p[2]].stats).metrics

\* a frame of two rows: one of a report with ipc 1.234 and a branch accuracy
\* but no cache rate, one of an empty report
C13_Witness ==
    /\ df.computed
    /\ Len(df.rows) = 2
    /\ \E i, j \in 1..2 :
          /\ IsFloat(df.rows[i].ipc, 1234, 1000)
          /\ IsFloat(df.rows[i].branch_accuracy, 87, 100)
          /\ df.rows[i].dcache_hit_rate = IntVal(0)
          /\ StoredReport(<<df.rows[j].experiment, df.rows[j].workload>>) = EmptyMetrics
          /\ \A c \in MetricColumns : df.rows[j][c] = IntVal(0)

----------------------------------------------------------------------------
(* C14 *)

\* the rows of the frame whose column col holds label
Group(col, label) == {i \in 1..Len(df.rows) : df.rows[i][col] = label}

RECURSIVE TotalIpc(_)
\* the sum, as a fraction, of the ipc of the rows S of the frame
TotalIpc(S) ==
    IF S = {} THEN <<0, 1>>
    ELSE LET i == CHOOSE x \in S : TRUE
             rest == TotalIpc(S \ {i})
         IN  <<df.rows[i].ipc.num * rest[2] + rest[1] * df.rows[i].ipc.den,
               df.rows[i].ipc.den * rest[2]>>

\* v is the arithmetic mean of the ipc of the rows S
IsMeanOf(v, S) ==
    /\ v.kind = "float"
    /\ v.num * TotalIpc(S)[2] * Cardinality(S) = v.den * TotalIpc(S)[1]

\* the averages printed for the labels of a column
Averages(section) == {f \in printed : f.section = section}

\* the ipc of the rows S are 1.0, 2.0 and 3.0
OneTwoThree(S) ==
    /\ Cardinality(S) = 3
    /\ \A n \in 1..3 : \E i \in S : IsFloat(df.rows[i].ipc, n, 1)

\* C14: when the run has ended with a frame that is not empty, exactly one
\* average is printed per experiment label and per workload label of the
\* frame, and it is the arithmetic mean of the ipc of all the rows sharing
\* that label and of no other row; rows of 1.0, 2.0 and 3.0 average 2.0.
C14_ArithmeticMean ==
    (pc = "exit0" /\ ~IsNone(df)) =>
        /\ \A l \in {df.rows[i].experiment : i \in 1..Len(df.rows)} :
              /\ Cardinality({f \in Averages("Average IPC by experiment") : f.label = l}) = 1
              /\ \A f \in Averages("Average IPC by experiment") :
                    f.label = l =>
                       /\ IsMeanOf(f.value, Group("experiment", l))
                       /\ OneTwoThree(Group("experiment", l)) => IsFloat(f.value, 2, 1)
        /\ \A l \in {df.rows[i].workload : i \in 1..Len(df.rows)} :
              /\ Cardinality({f \in Averages("Average IPC by workload") : f.workload = l}) = 1
              /\ \A f \in Averages("Average IPC by workload") :
                    f.workload = l => IsMeanOf(f.value, Group("workload", l))
        /\ \A f \in Averages("Average IPC by experiment") :
              \E i \in 1..Len(df.rows) : df.rows[i].experiment = f.label
        /\ \A f \in Averages("Average IPC by workload") :
              \E i \in 1..Len(df.rows) : df.rows[i].workload = f.workload

\* the run ended with three rows of one experiment holding 1.0, 2.0 and 3.0,
\* the printed average of that experiment being 2.0
C14_Witness ==
    /\ pc = "exit0"
    /\ OneTwoThree(Group("experiment", "superscalar"))
    /\ \E f \in Averages("Average IPC by experiment") :
          f.label = "superscalar" /\ IsFloat(f.value, 2, 1)

\* two experiments, each with its own average: the rows of the other
\* experiment do not count
C14_WitnessOthers ==
    /\ pc = "exit0"
    /\ Len(df.rows) = 3
    /\ \E f, g \in Averages("Average IPC by experiment") :
          /\ f.label = "branch_prediction" /\ IsFloat(f.value, 3, 2)
          /\ g.label = "superscalar" /\ IsFloat(g.value, 3, 1)

----------------------------------------------------------------------------
(* C15 *)

----------------------------------------------------------------------------
(* C16 *)

\* the primary metrics of a report
PrimaryPart(m) == [k \in DOMAIN m \cap CatalogNames |-> m[k]]

\* the steps of the derived-metric computation
DerivedSteps == {"branch", "icache", "dcache", "l2cache"}
Step(s, m) == IF s = "branch" THEN BranchAccuracy(m) ELSE HitRate(s, m)

\* every order of the four steps
StepOrders == {o \in [1..4 -> DerivedSteps] : \A i, j \in 1..4 : i # j => o[i] # o[j]}

RECURSIVE ApplySteps(_, _, _)
\* the steps order[i], order[i+1], ... applied in turn; an exception ends them
ApplySteps(order, i, r) ==
    IF i > Len(order) \/ r.exc # "none" THEN r
    ELSE ApplySteps(order, i + 1, Step(order[i], r.metrics))

\* C16: the derived metrics of a report are a function of its primary metrics
\* only (the report is the derived step applied to its primary metrics);
\* applying the derived step to the finished report changes nothing; and the
\* four steps give the same report in every order.
C16_DerivedFromPrimaries ==
    Parsed =>
        /\ Derived(PrimaryPart(Report)) = Done(Report)
        /\ Derived(Report) = Done(Report)
        /\ \A o \in StepOrders : ApplySteps(o, 1, Done(PrimaryPart(Report))) = Done(Report)

\* a report with a branch accuracy and the hit rates of two tiers
C16_Witness ==
    /\ Parsed
    /\ Has("branch_accuracy") /\ IsFloat(Report["branch_accuracy"], 87, 100)
    /\ Has("icache_hit_rate") /\ IsFloat(Report["icache_hit_rate"], 1, 2)
    /\ Has("l2cache_hit_rate") /\ IsFloat(Report["l2cache_hit_rate"], 0, 1)
    /\ ~Has("dcache_hit_rate")

----------------------------------------------------------------------------
(* C17 *)

CatalogKeys == {patterns[i].key : i \in 1..Len(patterns)}

RECURSIVE LineEnd(_, _)
\* the position that ends the line starting at i: its line break, or the end
LineEnd(content, i) ==
    IF i >= Len(content) \/ content[i] = "\n" THEN i ELSE LineEnd(content, i + 1)

\* the line belongs to a catalog metric other than m: it holds the key phrase
\* of another metric and not the key phrase of m
BelongsToOther(line, m) ==
    /\ \E k \in 1..Len(line) : line[k] \in CatalogKeys \ {PatternOf(m).key}
    /\ \A k \in 1..Len(line) : line[k] # PatternOf(m).key

RECURSIVE WithoutOthers(_, _, _)
\* the text from position i on, without the lines that belong to other metrics
WithoutOthers(content, m, i) ==
    IF i > Len(content) THEN <<>>
    ELSE LET e == LineEnd(content, i)
             line == SubSeq(content, i, e)
         IN  (IF BelongsToOther(line, m) THEN <<>> ELSE line)
             \o WithoutOthers(content, m, e + 1)

\* the reports r1 and r2 agree on the presence and the value of metric m
AgreeOn(m, r1, r2) ==
    /\ m \in DOMAIN r1 <=> m \in DOMAIN r2
    /\ m \in DOMAIN r1 => r1[m] = r2[m]

----------------------------------------------------------------------------
(* C18 *)

\* the token is of the numeric syntax: a sign or none, digits, a decimal point
\* and fraction or none, an exponent e or E or none
NumericSyntax(t) == PyFloat(t).exc = "none"

\* the number v is the number the token denotes
Denotes(v, t) ==
    /\ v.kind \in {"int", "float"}
    /\ v.num * PyFloat(t).val.den = v.den * PyFloat(t).val.num

\* the text has one ipc line, made of the key phrase and the token t
OnlyIpcLine(t) ==
    /\ HasLine("system.cpu.ipc", t)
    /\ Cardinality({i \in 1..Len(Content) : Content[i] = "system.cpu.ipc"}) = 1

\* C18: when the ipc line holds a token of the numeric syntax, the report
\* holds ipc and its value is the number the whole token denotes; this
\* includes -5 and 1E2.
C18_AsStated ==
    Parsed =>
        \A t \in NumTokens :
            (NumericSyntax(t) /\ OnlyIpcLine(t)) => (Has("ipc") /\ Denotes(Report["ipc"], t))

----------------------------------------------------------------------------
(* C20 *)

\* C20: a branch accuracy in a report is a value between 0 and 1 inclusive.
C20_AsStated ==
    (Parsed /\ Has("branch_accuracy")) =>
        /\ Report["branch_accuracy"].kind \in {"int", "float"}
        /\ 0 <= Report["branch_accuracy"].num
        /\ Report["branch_accuracy"].num <= Report["branch_accuracy"].den

----------------------------------------------------------------------------
(* C19 *)

\* every report stored under an experiment is stored unchanged after the step
StoredKept ==
    \A e \in DOMAIN experiments :
        /\ e \in DOMAIN experiments'
        /\ experiments'[e] = experiments[e]

\* while one experiment is loaded, the reports recorded so far are unchanged
\* by the later calls of parse_stats_file
RecordedKept ==
    (pc = "load_data" /\ pc' \in {"load_data", "raised", "load_results"}) =>
        \A w \in DOMAIN experiment_data :
            /\ w \in DOMAIN experiment_data'
            /\ experiment_data'[w] = experiment_data[w]

\* a call of parse_stats_file (the visit of one entry) leaves experiments alone
CallKeepsExperiments ==
    (pc = "load_data" /\ todo' # todo) => experiments' = experiments

\* C19: no step of the run changes a report once it is recorded: a call of
\* parse_stats_file leaves the experiments mapping and the reports of earlier
\* calls as they were, and the loading, the row projection, the two analyses
\* and the summary leave every stored report as it was.
C19_ReportsNeverUpdated == [][StoredKept /\ RecordedKept /\ CallKeepsExperiments]_vars

\* the run has ended, and a stored report still lacks sim_seconds although
\* the frame shows 0 for it
C19_Witness ==
    /\ pc = "exit0"
    /\ \E i \in 1..Len(df.rows) :
          LET report == experiments[df.rows[i].experiment][df.rows[i].workload].stats
          IN  /\ "ipc" \in DOMAIN report
              /\ "sim_seconds" \notin DOMAIN report
              /\ df.rows[i].sim_seconds = IntVal(0)

----------------------------------------------------------------------------
(* C21 *)

\* the rate of tier c is the number n: n = 0 or n = 1
RateIs(c, n) == Rate(c).num = n * Rate(c).den

\* the rate of tier c is a float between 0 and 1 inclusive
RateInUnit(c) ==
    /\ Rate(c).kind = "float"
    /\ 0 <= Rate(c).num /\ Rate(c).num <= Rate(c).den

\* C21 as stated: a hit rate in a report lies between 0 and 1 inclusive, is 1
\* exactly when misses = 0 and hits > 0, and is 0 exactly when hits = 0.
C21_AsStated ==
    Parsed =>
        \A c \in TierNames :
            Has(c \o "_hit_rate") =>
                /\ RateInUnit(c)
                /\ RateIs(c, 1) <=> (Misses(c).num = 0 /\ Hits(c).num > 0)
                /\ RateIs(c, 0) <=> Hits(c).num = 0

\* C21, amended: a hit rate in a report lies between 0 and 1 inclusive; it is
\* 1 when misses = 0 and hits > 0, and 0 when hits = 0; conversely a rate of 1
\* has hits > 0 and misses too few for the quotient to be told from 1 by a
\* float, and a rate of 0 has hits = 0 or hits too few for the quotient to be
\* told from 0.
C21_HitRateRange ==
    Parsed =>
        \A c \in TierNames :
            Has(c \o "_hit_rate") =>
                /\ RateInUnit(c)
                /\ (Misses(c).num = 0 /\ Hits(c).num > 0) => RateIs(c, 1)
                /\ Hits(c).num = 0 => RateIs(c, 0)
                /\ RateIs(c, 1) =>
                       /\ Hits(c).num > 0
                       /\ 2 * FloatResolution * Misses(c).num < Hits(c).num + Misses(c).num
                /\ RateIs(c, 0) =>
                       2 * FloatMax * Hits(c).num < Hits(c).num + Misses(c).num
                         \/ Hits(c).num = 0

\* 9999 hits and 1 miss: the rate is 1.0 although there was a miss
C21_Witness ==
    /\ Parsed /\ Has("icache_hit_rate")
    /\ Hits("icache").num = 9999 /\ Misses("icache").num = 1
    /\ RateIs("icache", 1)

----------------------------------------------------------------------------
(* C22 *)

\* the figure printed as the best IPC
BestFigs == {f \in printed : f.section = "Best IPC"}

\* the row of the frame for the loaded pair p is the row of zeros, the same
\* as the row of a report that measured an ipc of 0
ZeroRow(p) ==
    \E i \in 1..Len(df.rows) :
        /\ df.rows[i].experiment = p[1] /\ df.rows[i].workload = p[2]
        /\ \A c \in MetricColumns : df.rows[i][c] = IntVal(0)
        /\ DOMAIN df.rows[i] = {"experiment", "workload"} \cup MetricColumns
        /\ df.rows[i] = Row(p[1], p[2], Put(EmptyMetrics, "ipc", IntVal(0)))

\* C22: a loaded workload whose report is empty (stats.txt missing, or no
\* metric matched) has a row of zeros in the frame; when the run ends, the
\* printed averages of its experiment and of its workload label are means
\* over groups that include this row, and the best IPC is chosen among all
\* rows, this one included; the row is the one a measured ipc of 0 gives.
C22_UnmeasuredCountsAsZero ==
    \A p \in LoadedPairs :
        (df.computed /\ StoredReport(p) = EmptyMetrics) =>
            /\ ZeroRow(p)
            /\ pc = "exit0" =>
                  /\ \E f \in Averages("Average IPC by experiment") :
                        /\ f.label = p[1]
                        /\ RowsOf(p) \subseteq Group("experiment", p[1])
                        /\ IsMeanOf(f.value, Group("experiment", p[1]))
                  /\ \E f \in Averages("Average IPC by workload") :
                        /\ f.workload = p[2]
                        /\ RowsOf(p) \subseteq Group("workload", p[2])
                        /\ IsMeanOf(f.value, Group("workload", p[2]))
                  /\ Cardinality(BestFigs) = 1
                  /\ \A f \in BestFigs :
                        /\ \A i \in 1..Len(df.rows) : ~NumLess(f.value, df.rows[i].ipc)
                        /\ (\A i \in 1..Len(df.rows) : df.rows[i].ipc = IntVal(0)) =>
                               /\ f.value = IntVal(0)
                               /\ f.label = df.rows[1].experiment
                               /\ f.workload = df.rows[1].workload

\* the run ended; w1 of superscalar has no stats.txt and w2 has an ipc of
\* 1.234: the printed average of superscalar is 0.617
C22_Witness ==
    /\ pc = "exit0"
    /\ StatsMissing("superscalar", "w1")
    /\ ZeroRow(<<"superscalar", "w1">>)
    /\ Len(df.rows) = 2
    /\ \E f \in Averages("Average IPC by experiment") :
          f.label = "superscalar" /\ IsFloat(f.value, 617, 1000)

----------------------------------------------------------------------------
(* C23 *)

\* load_experiment_results has returned
LoadReturned == pc \notin {"main", "exit1"} /\ exp_idx > Len(experiment_dirs)

\* C23: after load_experiment_results, experiments has an entry for a name
\* exactly when the name is one of basic_pipeline, branch_prediction,
\* superscalar, smt and stands under the results directory; an experiment has
\* one workload entry for every subdirectory and none for a plain file; every
\* workload entry holds a stats report and a config path, the path being null
\* when config.ini is absent.
C23_LoadedMapping ==
    LoadReturned =>
        /\ DOMAIN experiments
              = {"basic_pipeline", "branch_prediction", "superscalar", "smt"} \cap DOMAIN fs.dirs
        /\ \A d \in DOMAIN experiments :
              /\ DOMAIN experiments[d] = {w \in DOMAIN fs.dirs[d] : fs.dirs[d][w].is_dir}
              /\ \A w \in DOMAIN experiments[d] :
                    /\ DOMAIN experiments[d][w] = {"stats", "config_path"}
                    /\ experiments[d][w].stats = parse_stats_file(fs.dirs[d][w].stats).metrics
                    /\ experiments[d][w].config_path = <<>> <=> ~fs.dirs[d][w].config
                    /\ fs.dirs[d][w].config =>
                           experiments[d][w].config_path = <<d, w, "config.ini">>

\* the results directory holds a directory of another name, and superscalar
\* holds a plain file w1 and a workload directory w2 without config.ini
C23_Witness ==
    /\ pc = "loaded"
    /\ DOMAIN fs.dirs = {"other", "superscalar"}
    /\ DOMAIN fs.dirs["superscalar"] = {"w1", "w2"}
    /\ ~fs.dirs["superscalar"]["w1"].is_dir
    /\ fs.dirs["superscalar"]["w2"].is_dir /\ ~fs.dirs["superscalar"]["w2"].config
    /\ DOMAIN experiments = {"superscalar"}
    /\ DOMAIN experiments["superscalar"] = {"w2"}
    /\ experiments["superscalar"]["w2"].config_path = <<>>

----------------------------------------------------------------------------
(* C24 *)

\* the places of the text where metric m matches
Places(m) ==
    {i \in 1..Len(Content) : ShownAt(i, PatternOf(m).key, PatternOf(m).class)}

\* the value v is what the token t is stored as: the number it denotes, or
\* the token itself when it is not a number
StoredAs(v, t) ==
    IF NumericSyntax(t) THEN Denotes(v, t) ELSE v.kind = "str" /\ v.text = t

\* C24: a metric that matches at one or more places of the text is stored
\* with the value of the first place in text order, whatever the later places
\* show; a place counts wherever the key phrase stands, also after other
\* characters of its line.
C24_FirstOccurrence ==
    Parsed =>
        \A m \in CatalogNames :
            /\ Places(m) # {} => (Has(m) /\ StoredAs(Report[m], TokenOf(m)))
            /\ Places(m) = {} => ~Has(m)

\* sim_insts stands first in the middle of a line, showing 42, and then at the
\* start of a line showing 1000: the report holds 42
C24_Witness ==
    /\ Parsed
    /\ Cardinality(Places("sim_insts")) = 2
    /\ \E i \in Places("sim_insts") : i > 1 /\ Content[i - 1] = "x"
    /\ HasLine("sim_insts", Tok1000)
    /\ TokenOf("sim_insts") = <<"4", "2">>
    /\ Report["sim_insts"] = IntVal(42)

----------------------------------------------------------------------------
(* C25 *)

\* the primary metrics that feed the derived step
CounterNames ==
    {"branch_condPredicted", "branch_condIncorrect",
     "icache_overall_hits", "icache_overall_misses",
     "dcache_overall_hits", "dcache_overall_misses",
     "l2cache_overall_hits", "l2cache_overall_misses"}

\* C25: in every report that is returned, each counter that feeds the derived
\* step is a non-negative integer when present, never a float and never text.
C25_AsStated ==
    Parsed =>
        \A k \in CounterNames :
            Has(k) => (Report[k].kind = "int" /\ Report[k].num >= 0)

----------------------------------------------------------------------------
(* C26 *)

\* C26: every value in the six metric columns of a row of the frame is a
\* number, never a text token.
C26_AsStated ==
    df.computed =>
        \A i \in 1..Len(df.rows) :
            \A c \in MetricColumns : df.rows[i][c].kind \in {"int", "float"}

----------------------------------------------------------------------------
(* C27 *)

\* what the analysis of experiment exp has printed: its notice or header, and
\* its figures
AnalysisPrinted(exp) ==
    {f \in printed : f.section \in {exp, IF exp = "branch_prediction" THEN "branch" ELSE exp}}

\* what the key insights have printed
InsightsPrinted ==
    {f \in printed : f.section \in {"Best IPC", "Average IPC by workload",
                                       "Average IPC by experiment"}}

\* the state part: the table is built after the loading; nothing is written
\* or analysed before the table; the plot and the insights need a table that
\* is not empty and are there when the run ends with one; an analysis that
\* is over has printed its notice or its header, whether or not the table is
\* empty; an experiment that was not loaded gets the notice and nothing else
C27_State ==
    /\ df.computed =>
          /\ LoadReturned
          /\ DOMAIN experiments = Listed \cap DOMAIN fs.dirs
    /\ ~df.computed =>
          /\ written = {} /\ InsightsPrinted = {}
          /\ AnalysisPrinted("branch_prediction") = {}
          /\ AnalysisPrinted("superscalar") = {}
    /\ PlotFile \in written => ~IsNone(df)
    /\ InsightsPrinted # {} => (~IsNone(df) /\ pc = "exit0")
    /\ (pc = "exit0" /\ ~IsNone(df)) => (PlotFile \in written /\ BestFigs # {})
    /\ pc \in {"superscalar_analysis", "insights", "exit0"} =>
          AnalysisPrinted("branch_prediction") # {}
    /\ pc \in {"insights", "exit0"} => AnalysisPrinted("superscalar") # {}
    /\ \A exp \in {"branch_prediction", "superscalar"} :
          IF exp \in DOMAIN experiments
          THEN NotFound(exp) \notin printed
          ELSE AnalysisPrinted(exp) \subseteq {NotFound(exp)}

\* the step part: the positions of generate_summary_report follow one another
\* in one order
C27_Step ==
    pc' # pc =>
        /\ pc' = "loaded" => pc = "load_results"
        /\ pc' = "plot" => (pc = "loaded" /\ ~IsNone(df'))
        /\ pc' = "branch_analysis" => (pc = "plot" \/ (pc = "loaded" /\ IsNone(df')))
        /\ pc' = "superscalar_analysis" => pc = "branch_analysis"
        /\ pc' = "insights" => pc = "superscalar_analysis"
        /\ pc' = "exit0" => pc = "insights"
        /\ pc = "loaded" => df'.computed

\* C27: generate_summary_report runs its steps in a fixed order: the loading,
\* then the table, then the plot when the table is not empty, then the branch
\* prediction analysis and the superscalar analysis whether or not the table
\* is empty, then the key insights, with statistics only for a table that is
\* not empty; an analysis whose experiment was not loaded prints only its
\* not-found notice.
C27_FixedOrder == []C27_State /\ [][C27_Step]_vars

\* the run ended with an empty table: no plot, the notice of the branch
\* prediction analysis, and the header of the superscalar analysis, whose
\* experiment directory holds no workload directory
C27_Witness ==
    /\ pc = "exit0"
    /\ IsNone(df)
    /\ written = {}
    /\ "superscalar" \in DOMAIN experiments
    /\ AnalysisPrinted("branch_prediction") = {NotFound("branch_prediction")}
    /\ AnalysisPrinted("superscalar") = {Header("superscalar")}

----------------------------------------------------------------------------
(* C28 *)

\* C28: once generate_performance_comparison has run, if no (experiment,
\* workload) pair was loaded there is no table and neither
\* performance_comparison.csv nor ipc_comparison.png is ever written; if a
\* pair was loaded the CSV is written and the table is returned, with one row
\* per pair; the plot is written only after the CSV.
C28_FilesWritten ==
    /\ ~df.computed => written = {}
    /\ df.computed =>
          IF LoadedPairs = {}
          THEN IsNone(df) /\ written = {}
          ELSE /\ ~IsNone(df)
               /\ Len(df.rows) = Cardinality(LoadedPairs)
               /\ CsvFile \in written
               /\ written \subseteq {CsvFile, PlotFile}
               /\ pc \in {"branch_analysis", "superscalar_analysis", "insights", "exit0"}
                      => PlotFile \in written

\* the run ended without any experiment directory: nothing was written
C28_Witness ==
    /\ pc = "exit0"
    /\ DOMAIN experiments = {}
    /\ df.computed /\ IsNone(df)
    /\ Msg("comparison", "No experiment data found!") \in printed
    /\ written = {}

----------------------------------------------------------------------------
(* C29 *)

\* the run has ended
Ended == pc \in {"exit0", "exit1", "raised"}

\* the workload directories of the tree that the run loads
Workloads ==
    {p \in (Listed \cap DOMAIN fs.dirs) \X EntryNames : IsWorkload(p[1], p[2])}

\* the report of the stats.txt of workload p
ReportOf(p) == parse_stats_file(fs.dirs[p[1]][p[2]].stats)

\* the way a run on the tree ends: exit code 1 without the directory, an
\* exception when a stats.txt cannot be parsed or shows a text ipc, exit code
\* 0 otherwise
ExitOf ==
    IF ~fs.exists THEN "exit1"
    ELSE IF \E p \in Workloads :
               \/ ReportOf(p).exc # "none"
               \/ ("ipc" \in DOMAIN ReportOf(p).metrics
                      /\ ReportOf(p).metrics["ipc"].kind = "str")
         THEN "raised"
    ELSE "exit0"

\* C29: the way the run ends, the experiments it loads, the rows it builds
\* and the files it writes are determined by the results directory alone:
\* they are the same under console, html and pdf.
C29_FormatHasNoInfluence ==
    Ended =>
        /\ pc = ExitOf
        /\ pc = "exit1" => (experiments = <<>> /\ ~df.computed /\ written = {})
        /\ pc = "exit0" =>
              /\ DOMAIN experiments = Listed \cap DOMAIN fs.dirs
              /\ LoadedPairs = Workloads
              /\ \A p \in Workloads : StoredReport(p) = ReportOf(p).metrics
              /\ {df.rows[i] : i \in 1..Len(df.rows)}
                    = {Row(p[1], p[2], ReportOf(p).metrics) : p \in Workloads}
              /\ written = IF Workloads = {} THEN {} ELSE {CsvFile, PlotFile}

\* a run under pdf ended with exit code 0, one row, the CSV and the plot
C29_Witness ==
    /\ pc = "exit0"
    /\ output_format = "pdf"
    /\ Len(df.rows) = 1
    /\ IsFloat(df.rows[1].ipc, 1234, 1000)
    /\ written = {CsvFile, PlotFile}

----------------------------------------------------------------------------
(* C30 *)

\* the rows of the CSV of an experiment with a configuration and a workload
BaselineRows(exp, base, w) ==
    {i \in 1..Len(csv_path.data) :
        /\ csv_path.data[i].Experiment = exp
        /\ csv_path.data[i].Configuration = base
        /\ csv_path.data[i].Workload = w}

\* the workload has no baseline row, or the IPC of the one used is 0
NoBaseline(exp, base, w) ==
    \/ BaselineRows(exp, base, w) = {}
    \/ LET last == CHOOSE i \in BaselineRows(exp, base, w) :
                       \A j \in BaselineRows(exp, base, w) : j <= i
       IN  PyFloat(csv_path.data[last].IPC).val.num = 0

\* C30: on a CSV with non-negative IPC values simple_analysis never divides
\* by zero: the improvement is 0 and the scaling factor 1.0 for a workload
\* without a baseline row or with a baseline IPC of 0, every average is over
\* a non-empty group, and the tournament-versus-none improvement of
\* generate_insights is computed only with a non-zero baseline IPC.
C30_AsStated ==
    /\ sa_out.exc # "ZeroDivisionError"
    /\ \A f \in sa_out.figs :
          /\ (f.what = "improvement"
                 /\ NoBaseline("Branch Prediction", <<"none">>, f.workload))
                => f.value.num = 0
          /\ (f.what \in {"scaling", "scaling_summary"}
                 /\ NoBaseline("Superscalar", <<"1", "way">>, f.workload))
                => f.value.num = f.value.den
          /\ f.what = "avg_ipc" =>
                \E i \in 1..Len(csv_path.data) :
                    /\ f.experiment # "" => csv_path.data[i].Experiment = f.experiment
                    /\ f.config # <<>> => csv_path.data[i].Configuration = f.config
                    /\ f.workload # "" => csv_path.data[i].Workload = f.workload
          /\ f.what = "insight_improvement" => PyFloat(f.ipc).val.num # 0

====
